---------------------------- MODULE Spec2Model ----------------------------
(***************************************************************************)
(* Model of the data/query orchestration layer of the transaction RAG      *)
(* service: the Query Result Cache (app/utils/cache.py), the tiered        *)
(* Dataset Store (app/utils/data_store.py) and the /prompt and /ingest     *)
(* handlers (app/api/transactions.py).                                     *)
(*                                                                         *)
(* Conventions.                                                            *)
(*  - A Python string is a sequence of symbols; the separator "_" is a     *)
(*    symbol of its own, so concatenation is modelled as it happens.       *)
(*  - An Optional value is a sequence of length 0 (None) or 1.             *)
(*  - A Python list of transactions is an object on `heap`; the stores,    *)
(*    the cache and the background threads hold references (object ids),   *)
(*    so aliasing between them is part of the state.                       *)
(***************************************************************************)
EXTENDS Integers, Sequences, FiniteSets, TLC

VARIABLES
    now,            \* datetime.now(), in minutes
    query_cache,    \* cache.py: query_cache, query_id -> entry
    memory_cache,   \* data_store.py: _memory_cache, storage_key -> data
    legacy_store,   \* data_store.py: _legacy_store
    heap,           \* the transaction lists the references above point to
    db,             \* the UserData table, user_id -> row
    threads,        \* the save_to_db background threads, in start order
    DB_AVAILABLE,   \* data_store.py: DB_AVAILABLE, fixed at import
    models,         \* transactions.py: embeddings_model, llm, llm_streaming set
    resp,           \* what the last operation returned to its caller
    stream,         \* transactions.py: the generate_stream generator in flight
    fpIn,           \* SpecFp: the two argument triples under comparison
    fpOut           \* SpecFp: the keys and ids generate_query_id made of them

vars == <<now, query_cache, memory_cache, legacy_store, heap, db, threads,
          DB_AVAILABLE, models, resp, stream, fpIn, fpOut>>

---------------------------------------------------------------------------
(* Bounds of the model.                                                    *)
MaxPromptLen == 2
MaxTime == 40
TickMinutes == 10
MaxDocs == 3
MaxPage == 2
MaxThreads == 1
MaxWriters == 2
MaxObjs == 8

(* settings.CACHE_TTL_MINUTES                                              *)
CACHE_TTL_MINUTES == 30

---------------------------------------------------------------------------
(* Optional values and strings.                                            *)
None == <<>>
Some(x) == <<x>>

Range(s) == {s[i] : i \in DOMAIN s}

SeqsUpTo(S, n) == UNION {[1..k -> S] : k \in 0..n}

RECURSIVE Concat(_)
Concat(ss) == IF ss = <<>> THEN <<>> ELSE Head(ss) \o Concat(Tail(ss))

(* Python truthiness of an Optional[str]: None and "" are falsy.           *)
Truthy(user_id) == user_id # None /\ user_id[1] # <<>>

---------------------------------------------------------------------------
(* cache.py: generate_query_id                                             *)

(* The filter keys, in the order sort_keys=True puts them.                 *)
FilterKeys == <<"max_amount", "min_amount">>

(* A filter mapping is a dict: its items in insertion order, keys distinct. *)
IsDict(f) == \A i, j \in DOMAIN f : i # j => f[i][1] # f[j][1]

DictKeys(f) == {f[i][1] : i \in DOMAIN f}

DictGet(f, k) == LET i == CHOOSE i \in DOMAIN f : f[i][1] = k IN f[i][2]

(* Python dict equality: the same items, whatever the insertion order.     *)
DictEq(f, g) == Range(f) = Range(g)

JsonItem(k, v) == <<"\"", k, "\"", ":", " ", ToString(v)>>

RECURSIVE JsonItems(_)
JsonItems(items) ==
    IF items = <<>> THEN <<>>
    ELSE JsonItem(Head(items)[1], Head(items)[2])
         \o (IF Tail(items) = <<>> THEN <<>> ELSE <<",", " ">>)
         \o JsonItems(Tail(items))

SortedItems(f) ==
    LET present == SelectSeq(FilterKeys, LAMBDA k : k \in DictKeys(f))
    IN  [i \in DOMAIN present |-> <<present[i], DictGet(f, present[i])>>]

json_dumps_unsorted(f) == <<"{">> \o JsonItems(f) \o <<"}">>

(* json.dumps(filters, sort_keys=True)                                     *)
json_dumps(f) == <<"{">> \o JsonItems(SortedItems(f)) \o <<"}">>

user_part(user_id) ==
    IF Truthy(user_id) THEN <<"user", "_">> \o user_id[1] \o <<"_">>
    ELSE <<"global", "_">>

cache_key(prompt, filters, user_id) ==
    user_part(user_id) \o prompt \o <<"_">> \o json_dumps(filters)

(* hashlib.md5(...).hexdigest(), idealised as a collision-free digest: the *)
(* digest is a tagged copy of the text it was made of.                     *)
md5(s) == [md5 |-> s]

generate_query_id(prompt, filters, user_id) ==
    md5(cache_key(prompt, filters, user_id))

---------------------------------------------------------------------------
(* The heap of transaction lists.                                          *)
ObjIds == 1..MaxObjs

(* The objects some holder references: the stores, the cache entries and   *)
(* the closures of the background threads.                                 *)
LiveRefs(l, m, q, t) ==
    {l.transactions}
    \cup {m[k].transactions : k \in DOMAIN m}
    \cup {q[i].filtered_docs : i \in DOMAIN q}
    \cup {t[i].transactions : i \in DOMAIN t}

Live == LiveRefs(legacy_store, memory_cache, query_cache, threads)

(* The objects no holder references; a new list takes the lowest.          *)
FreeObjs == ObjIds \ Live

MinOf(S) == CHOOSE o \in S : \A p \in S : o <= p

FreshObj == MinOf(FreeObjs)

Restrict(f, S) == [x \in S |-> f[x]]

(* Object identities are opaque: a state is kept up to the naming of its   *)
(* objects.  The holders are walked in a fixed order (the legacy store,    *)
(* the in-memory tier, the cache, the threads) and the objects numbered by *)
(* first appearance.                                                       *)
RECURSIVE SetToSeq(_)
SetToSeq(S) ==
    IF S = {} THEN <<>>
    ELSE LET x == CHOOSE y \in S : TRUE IN <<x>> \o SetToSeq(S \ {x})

HolderRefs(l, m, q, t) ==
    LET mk == SetToSeq(DOMAIN m)
        qk == SetToSeq(DOMAIN q)
    IN  <<l.transactions>>
        \o [i \in DOMAIN mk |-> m[mk[i]].transactions]
        \o [i \in DOMAIN qk |-> q[qk[i]].filtered_docs]
        \o [i \in DOMAIN t |-> t[i].transactions]

ObjRank(o, refs) ==
    LET first == CHOOSE i \in DOMAIN refs :
                    refs[i] = o /\ \A j \in 1..(i - 1) : refs[j] # o
    IN  Cardinality({refs[j] : j \in 1..(first - 1)}) + 1

Rename(l, m, q, t, h, name) ==
    LET inv == [n \in {name[o] : o \in DOMAIN name} |->
                   CHOOSE o \in DOMAIN name : name[o] = n]
    IN  [ls |-> [l EXCEPT !.transactions = name[@]],
         mc |-> [k \in DOMAIN m |-> [m[k] EXCEPT !.transactions = name[@]]],
         qc |-> [k \in DOMAIN q |-> [q[k] EXCEPT !.filtered_docs = name[@]]],
         th |-> [i \in DOMAIN t |-> [t[i] EXCEPT !.transactions = name[@]]],
         hp |-> [n \in ObjIds |-> IF n \in DOMAIN inv THEN h[inv[n]] ELSE <<>>]]

Canonical(l, m, q, t, h) ==
    LET refs == CHOOSE r \in {HolderRefs(l, m, q, t)} : TRUE
        name == CHOOSE f \in {[o \in Range(refs) |-> ObjRank(o, refs)]} : TRUE
    IN  Rename(l, m, q, t, h, name)

(* The holders and the heap after an operation: unreferenced lists freed.  *)
Holders(l, m, q, t, h) ==
    \E c \in {Canonical(l, m, q, t, h)} :
       /\ legacy_store' = c.ls
       /\ memory_cache' = c.mc
       /\ query_cache' = c.qc
       /\ threads' = c.th
       /\ heap' = c.hp

---------------------------------------------------------------------------
(* cache.py: the Query Result Cache                                        *)

Expired(entry, t) == t - entry.timestamp > CACHE_TTL_MINUTES

(* A sweep that removes nothing.                                           *)
cleanup_expired_cache_none(qc, t) == qc

(* cleanup_expired_cache(), reading the clock as t                         *)
cleanup_expired_cache(qc, t) ==
    Restrict(qc, {q \in DOMAIN qc : ~Expired(qc[q], t)})

(* A lookup that treats an entry of age exactly TTL as expired.            *)
get_cached_query_strict(qc, query_id, t1, t2) ==
    LET swept == cleanup_expired_cache(qc, t1) IN
    IF query_id \in DOMAIN swept
    THEN IF t2 - swept[query_id].timestamp < CACHE_TTL_MINUTES
         THEN <<swept, Some(swept[query_id])>>
         ELSE <<Restrict(swept, DOMAIN swept \ {query_id}), None>>
    ELSE <<swept, None>>

(* get_cached_query(query_id): the sweep reads the clock as t1, the check  *)
(* of the entry reads it again as t2.  Yields <<cache after, result>>.     *)
get_cached_query(qc, query_id, t1, t2) ==
    LET swept == cleanup_expired_cache(qc, t1) IN
    IF query_id \in DOMAIN swept
    THEN IF t2 - swept[query_id].timestamp <= CACHE_TTL_MINUTES
         THEN <<swept, Some(swept[query_id])>>
         ELSE <<Restrict(swept, DOMAIN swept \ {query_id}), None>>
    ELSE <<swept, None>>

(* A store that keeps the creation time of the entry it replaces.          *)
cache_query_results_keep_age(qc, query_id, answer, mode, filtered_docs, filters_applied, statistics, t) ==
    LET entry == [answer |-> answer, mode |-> mode,
                  filtered_docs |-> filtered_docs,
                  filters_applied |-> filters_applied,
                  statistics |-> statistics,
                  timestamp |-> IF query_id \in DOMAIN qc
                                THEN qc[query_id].timestamp ELSE t]
    IN  [q \in DOMAIN qc \cup {query_id} |->
            IF q = query_id THEN entry ELSE qc[q]]

(* A store that leaves an entry that is there as it is.                    *)
cache_query_results_keep_first(qc, query_id, answer, mode, filtered_docs, filters_applied, statistics, t) ==
    LET entry == [answer |-> answer, mode |-> mode,
                  filtered_docs |-> filtered_docs,
                  filters_applied |-> filters_applied,
                  statistics |-> statistics,
                  timestamp |-> t]
    IN  [q \in DOMAIN qc \cup {query_id} |->
            IF q \in DOMAIN qc THEN qc[q] ELSE entry]

(* cache_query_results(...), reading the clock as t                        *)
cache_query_results(qc, query_id, answer, mode, filtered_docs, filters_applied, statistics, t) ==
    LET entry == [answer |-> answer, mode |-> mode,
                  filtered_docs |-> filtered_docs,
                  filters_applied |-> filters_applied,
                  statistics |-> statistics,
                  timestamp |-> t]
    IN  [q \in DOMAIN qc \cup {query_id} |->
            IF q = query_id THEN entry ELSE qc[q]]

---------------------------------------------------------------------------
(* Transactions and the external index builder.                            *)

(* An entry with its list of transactions by value.                        *)
EntryValue(entry, h) == [entry EXCEPT !.filtered_docs = h[@]]

Txn(o, n, a) == [owner |-> o, n |-> n, amount |-> a]

(* rag_service.create_vector_store(transactions): the vectorstore and the  *)
(* langchain documents built from a transaction sequence.                  *)
create_vector_store(docs) ==
    [vectorstore |-> Some([built_from |-> docs]), langchain_docs |-> docs]

---------------------------------------------------------------------------
(* data_store.py: the tiered Dataset Store                                 *)

(* storage_key = user_id if user_id else "global"                          *)
(* A store that keeps every identity under the one global key.            *)
storage_key_shared(user_id) == <<"global">>

storage_key(user_id) == IF Truthy(user_id) THEN user_id[1] ELSE <<"global">>

EmptyData(obj) ==
    [transactions |-> obj, vectorstore |-> None, langchain_docs |-> <<>>,
     last_updated |-> None]

(* A put that starts the background write for every identity.             *)
StartsSave_any(user_id) == DB_AVAILABLE

(* Whether set_ingested_data starts the save_to_db thread.                 *)
StartsSave(user_id) == DB_AVAILABLE /\ Truthy(user_id)

(* A put that overwrites the list the store held, in place.                *)
PutTarget_inplace(obj, old) == old

(* The list object set_ingested_data puts into the store: the list it was  *)
(* handed (obj), never the list the store held before (old).               *)
PutTarget(obj, old) == obj

(* set_ingested_data(transactions, vectorstore, langchain_docs, user_id),  *)
(* up to the start of the background thread: transactions is the list      *)
(* object obj, holding docs.  Yields the stores, heap and threads after.   *)
set_ingested_data(docs, obj, vectorstore, langchain_docs, user_id) ==
    LET key  == storage_key(user_id)
        old  == IF Truthy(user_id)
                THEN IF key \in DOMAIN memory_cache
                     THEN memory_cache[key].transactions ELSE obj
                ELSE legacy_store.transactions
        tgt  == PutTarget(obj, old)
        data == [transactions |-> tgt, vectorstore |-> vectorstore,
                 langchain_docs |-> langchain_docs,
                 last_updated |-> Some(now)]
    IN  [mc |-> IF Truthy(user_id)
                THEN [k \in DOMAIN memory_cache \cup {key} |->
                         IF k = key THEN data ELSE memory_cache[k]]
                ELSE memory_cache,
         ls |-> IF Truthy(user_id) THEN legacy_store ELSE data,
         hp |-> [heap EXCEPT ![tgt] = docs],
         th |-> IF StartsSave(user_id)
                THEN Append(threads, [key |-> key, transactions |-> tgt,
                                      pc |-> "query", found |-> FALSE])
                ELSE threads]

(* A rebuild whose failure goes unnoticed.                                 *)
RebuildIndex_unguarded(transactions, build_ok) == create_vector_store(transactions)

(* Lines 165-180: the index rebuilt from the loaded transactions; a        *)
(* failing rebuild is caught and leaves no index and no documents.         *)
RebuildIndex(transactions, build_ok) ==
    IF build_ok THEN create_vector_store(transactions)
    ELSE [vectorstore |-> None, langchain_docs |-> <<>>]

(* A load that rebuilds no index.                                          *)
LoadedData_no_index(row, obj, build_ok) ==
    [transactions |-> obj, vectorstore |-> None, langchain_docs |-> <<>>,
     last_updated |-> Some(row.last_updated)]

(* Lines 183-188: the dataset reconstructed from a database row; its list  *)
(* of transactions is the object obj.                                      *)
LoadedData(row, obj, build_ok) ==
    LET built == RebuildIndex(row.transactions, build_ok) IN
    [transactions |-> obj, vectorstore |-> built.vectorstore,
     langchain_docs |-> built.langchain_docs,
     last_updated |-> Some(row.last_updated)]

(* A get that reads the durable tier before the in-memory tier.            *)
get_ingested_data_db_first(mc, hp, user_id, obj, db_ok, build_ok) ==
    LET key == storage_key(user_id) IN
    IF Truthy(user_id) /\ DB_AVAILABLE /\ db_ok /\ key \in DOMAIN db
    THEN [data |-> LoadedData(db[key], obj, TRUE),
          mc |-> mc, hp |-> [hp EXCEPT ![obj] = db[key].transactions],
          calls |-> <<"query", "build">>]
    ELSE IF Truthy(user_id) /\ key \in DOMAIN mc
    THEN [data |-> mc[key], mc |-> mc, hp |-> hp, calls |-> <<>>]
    ELSE [data |-> legacy_store, mc |-> mc, hp |-> hp, calls |-> <<>>]

(* A get that returns what it loaded without keeping it in memory.         *)
get_ingested_data_no_install(mc, hp, user_id, obj, db_ok, build_ok) ==
    LET key == storage_key(user_id) IN
    IF Truthy(user_id) /\ key \in DOMAIN mc
    THEN [data |-> mc[key], mc |-> mc, hp |-> hp, calls |-> <<>>]
    ELSE IF ~Truthy(user_id)
    THEN [data |-> legacy_store, mc |-> mc, hp |-> hp, calls |-> <<>>]
    ELSE IF DB_AVAILABLE /\ db_ok /\ key \in DOMAIN db
    THEN [data |-> LoadedData(db[key], obj, build_ok),
          mc |-> mc, hp |-> [hp EXCEPT ![obj] = db[key].transactions],
          calls |-> <<"query", "build">>]
    ELSE [data |-> EmptyData(obj), mc |-> mc, hp |-> [hp EXCEPT ![obj] = <<>>],
          calls |-> IF DB_AVAILABLE THEN <<"query">> ELSE <<>>]

(* A get that keeps in memory the empty dataset it returns on a miss.      *)
get_ingested_data_install_empty(mc, hp, user_id, obj, db_ok, build_ok) ==
    LET key == storage_key(user_id) IN
    IF Truthy(user_id) /\ key \in DOMAIN mc
    THEN [data |-> mc[key], mc |-> mc, hp |-> hp, calls |-> <<>>]
    ELSE IF ~Truthy(user_id)
    THEN [data |-> legacy_store, mc |-> mc, hp |-> hp, calls |-> <<>>]
    ELSE IF DB_AVAILABLE /\ db_ok /\ key \in DOMAIN db
    THEN LET data == LoadedData(db[key], obj, build_ok)
         IN  [data |-> data,
              mc |-> [k \in DOMAIN mc \cup {key} |->
                         IF k = key THEN data ELSE mc[k]],
              hp |-> [hp EXCEPT ![obj] = db[key].transactions],
              calls |-> <<"query", "build">>]
    ELSE [data |-> EmptyData(obj),
          mc |-> [k \in DOMAIN mc \cup {key} |->
                     IF k = key THEN EmptyData(obj) ELSE mc[k]],
          hp |-> [hp EXCEPT ![obj] = <<>>],
          calls |-> IF DB_AVAILABLE THEN <<"query">> ELSE <<>>]

(* A get that rebuilds the index of an entry in memory that has none.     *)
get_ingested_data_retry_index(mc, hp, user_id, obj, db_ok, build_ok) ==
    LET key == storage_key(user_id) IN
    IF Truthy(user_id) /\ key \in DOMAIN mc
    THEN IF mc[key].vectorstore = None
         THEN LET built == RebuildIndex(hp[mc[key].transactions], build_ok)
                  data == [mc[key] EXCEPT !.vectorstore = built.vectorstore,
                                          !.langchain_docs = built.langchain_docs]
              IN  [data |-> data, mc |-> [mc EXCEPT ![key] = data], hp |-> hp,
                   calls |-> <<"build">>]
         ELSE [data |-> mc[key], mc |-> mc, hp |-> hp, calls |-> <<>>]
    ELSE IF ~Truthy(user_id)
    THEN [data |-> legacy_store, mc |-> mc, hp |-> hp, calls |-> <<>>]
    ELSE IF DB_AVAILABLE /\ db_ok /\ key \in DOMAIN db
    THEN LET data == LoadedData(db[key], obj, build_ok)
         IN  [data |-> data,
              mc |-> [k \in DOMAIN mc \cup {key} |->
                         IF k = key THEN data ELSE mc[k]],
              hp |-> [hp EXCEPT ![obj] = db[key].transactions],
              calls |-> <<"query", "build">>]
    ELSE [data |-> EmptyData(obj), mc |-> mc, hp |-> [hp EXCEPT ![obj] = <<>>],
          calls |-> IF DB_AVAILABLE THEN <<"query">> ELSE <<>>]

(* get_ingested_data(user_id).  db_ok: the database read succeeds;         *)
(* build_ok: the index rebuild succeeds.  A list it creates is the object  *)
(* obj.  Yields the data returned, the in-memory tier and heap after, and  *)
(* the calls made to the database and to the index builder, in order.      *)
get_ingested_data(mc, hp, user_id, obj, db_ok, build_ok) ==
    LET key == storage_key(user_id) IN
    IF Truthy(user_id) /\ key \in DOMAIN mc
    THEN [data |-> mc[key], mc |-> mc, hp |-> hp, calls |-> <<>>]
    ELSE IF ~Truthy(user_id)
    THEN [data |-> legacy_store, mc |-> mc, hp |-> hp, calls |-> <<>>]
    ELSE IF DB_AVAILABLE /\ db_ok /\ key \in DOMAIN db
    THEN LET data == LoadedData(db[key], obj, build_ok)
         IN  [data |-> data,
              mc |-> [k \in DOMAIN mc \cup {key} |->
                         IF k = key THEN data ELSE mc[k]],
              hp |-> [hp EXCEPT ![obj] = db[key].transactions],
              calls |-> <<"query", "build">>]
    ELSE [data |-> EmptyData(obj), mc |-> mc, hp |-> [hp EXCEPT ![obj] = <<>>],
          calls |-> IF DB_AVAILABLE THEN <<"query">> ELSE <<>>]

(* An existence check that never asks the database.                        *)
has_ingested_data_memory_only(user_id, db_ok) ==
    LET key == storage_key(user_id) IN
    IF Truthy(user_id) /\ key \in DOMAIN memory_cache
    THEN Len(heap[memory_cache[key].transactions]) > 0
    ELSE IF ~Truthy(user_id)
    THEN Len(heap[legacy_store.transactions]) > 0
    ELSE FALSE

(* A check that finds data for everyone.                                   *)
has_ingested_data_always(user_id, db_ok) == TRUE

(* has_ingested_data(user_id).  db_ok: the database read succeeds.         *)
has_ingested_data(user_id, db_ok) ==
    LET key == storage_key(user_id) IN
    IF Truthy(user_id) /\ key \in DOMAIN memory_cache
    THEN Len(heap[memory_cache[key].transactions]) > 0
    ELSE IF ~Truthy(user_id)
    THEN Len(heap[legacy_store.transactions]) > 0
    ELSE IF DB_AVAILABLE
    THEN db_ok /\ key \in DOMAIN db
    ELSE FALSE

(* A delete that gives up when the database delete fails.                  *)
clear_ingested_data_all_or_nothing(user_id, obj, db_ok) ==
    LET key == storage_key(user_id)
        failed == DB_AVAILABLE /\ Truthy(user_id) /\ ~db_ok
    IN
    [db |-> IF DB_AVAILABLE /\ Truthy(user_id) /\ db_ok
            THEN Restrict(db, DOMAIN db \ {key}) ELSE db,
     mc |-> IF Truthy(user_id) /\ key \in DOMAIN memory_cache /\ ~failed
            THEN Restrict(memory_cache, DOMAIN memory_cache \ {key})
            ELSE memory_cache,
     ls |-> IF ~Truthy(user_id) THEN EmptyData(obj) ELSE legacy_store,
     hp |-> IF ~Truthy(user_id) THEN [heap EXCEPT ![obj] = <<>>] ELSE heap]

(* clear_ingested_data(user_id).  db_ok: the database delete commits.  The *)
(* empty list of the reset legacy store is the object obj.                 *)
clear_ingested_data(user_id, obj, db_ok) ==
    LET key == storage_key(user_id) IN
    [db |-> IF DB_AVAILABLE /\ Truthy(user_id) /\ db_ok
            THEN Restrict(db, DOMAIN db \ {key}) ELSE db,
     mc |-> IF Truthy(user_id) /\ key \in DOMAIN memory_cache
            THEN Restrict(memory_cache, DOMAIN memory_cache \ {key})
            ELSE memory_cache,
     ls |-> IF ~Truthy(user_id) THEN EmptyData(obj) ELSE legacy_store,
     hp |-> IF ~Truthy(user_id) THEN [heap EXCEPT ![obj] = <<>>] ELSE heap]

---------------------------------------------------------------------------
(* The collaborators of the /prompt handler.                               *)

Has(prompt, words) == \E i \in DOMAIN prompt : prompt[i] \in words

(* filters.extract_filters_from_query(prompt): one optional predicate per  *)
(* axis, an axis without a recognised expression left out.                 *)
extract_filters_from_query(prompt) ==
    (IF Has(prompt, {"above80"}) THEN << <<"min_amount", 80>> >> ELSE <<>>)
    \o (IF Has(prompt, {"under200"}) THEN << <<"max_amount", 200>> >> ELSE <<>>)

Matches(doc, filters) ==
    /\ "min_amount" \in DictKeys(filters)
          => doc.amount > DictGet(filters, "min_amount")
    /\ "max_amount" \in DictKeys(filters)
          => doc.amount < DictGet(filters, "max_amount")

(* filters.apply_filters(docs, filters, prompt): the matching subset in    *)
(* the original order, and one description per predicate applied.         *)
apply_filters(docs, filters, prompt) ==
    [matching |-> SelectSeq(docs, LAMBDA d : Matches(d, filters)),
     descriptions |-> [i \in DOMAIN filters |-> <<"filter", filters[i][1]>>]]

StatisticalWords == {"total", "average"}
FullDataWords == {"all"}

(* query_mode.detect_query_mode(prompt, documents): first match wins.      *)
detect_query_mode(prompt, documents) ==
    IF Has(prompt, StatisticalWords) THEN "STATISTICAL"
    ELSE IF Has(prompt, FullDataWords) THEN "SMART_FULL"
    ELSE "VECTOR_SEARCH"

AnalyticalWords == {"summarize", "summarise", "summary", "analyze", "analyse",
                    "overview", "insights", "patterns", "trends"}
CountWords == {"how many", "kitne", "count", "total"}
HindiCountWords == {"kitne_hi", "kitni_hi"}
TxnWords == {"transaction"}
HindiTxnWords == {"transaction", "tranz_hi"}

Before(prompt, A, B) ==
    \E i, j \in DOMAIN prompt : i < j /\ prompt[i] \in A /\ prompt[j] \in B

(* is_analytical or is_counting_query of the vector search branch.         *)
is_analytical(prompt) ==
    \/ Has(prompt, AnalyticalWords)
    \/ Before(prompt, CountWords, TxnWords)
    \/ Before(prompt, TxnWords, CountWords)
    \/ Before(prompt, HindiCountWords, HindiTxnWords)
    \/ Before(prompt, HindiTxnWords, HindiCountWords)
    \/ \E i \in DOMAIN prompt : /\ i + 1 \in DOMAIN prompt
                                /\ prompt[i] = "number of"
                                /\ prompt[i + 1] = "transaction"

(* The text the generation collaborator returns: opaque, but made from the *)
(* prompt and the transactions it was shown.                               *)
Answer(kind, prompt, docs) == [kind |-> kind, prompt |-> prompt, about |-> docs]

RECURSIVE SumAmounts(_)
SumAmounts(docs) ==
    IF docs = <<>> THEN 0 ELSE Head(docs).amount + SumAmounts(Tail(docs))

(* rag_service.process_statistical_query(documents, prompt)                *)
process_statistical_query(documents, prompt) ==
    LET f == apply_filters(documents, extract_filters_from_query(prompt), prompt)
    IN  [answer |-> Answer("statistical", prompt, f.matching),
         stats |-> [sum |-> SumAmounts(f.matching), count |-> Len(f.matching)],
         filter_desc |-> f.descriptions,
         match_count |-> Len(f.matching)]

(* rag_service.process_smart_full_query(documents, prompt, show_all)       *)
process_smart_full_query(documents, prompt, show_all) ==
    LET f == apply_filters(documents, extract_filters_from_query(prompt), prompt)
    IN  [answer |-> Answer("smart_full", prompt, f.matching),
         filtered_docs |-> f.matching,
         filter_descriptions |-> f.descriptions]

(* rag_service.process_analytical_query(documents, prompt)                 *)
process_analytical_query(documents, prompt) ==
    Answer("analytical", prompt, documents)

(* The retrieval ceiling of the vector search branch: min(50, len(docs)).  *)
RetrievalCeiling == 50

Min(a, b) == IF a <= b THEN a ELSE b

(* rag_service.process_vector_search_query(vectorstore, prompt, k): the    *)
(* answer is made from the top k documents of the index.                   *)
process_vector_search_query(vectorstore, prompt, k) ==
    Answer("specific", prompt, SubSeq(vectorstore[1].built_from, 1, k))

(* formatters.format_transaction_for_api(doc)                              *)
format_transaction_for_api(doc) == [api |-> doc]

---------------------------------------------------------------------------
(* Pagination of a matching subset (transactions.py 519-537, 593-611).     *)

(* An insertion that puts a transaction before those of equal amount.      *)
RECURSIVE InsertDesc_unstable(_, _)
InsertDesc_unstable(s, x) ==
    IF s = <<>> THEN <<x>>
    ELSE IF Head(s).amount > x.amount
         THEN <<Head(s)>> \o InsertDesc_unstable(Tail(s), x)
    ELSE <<x>> \o s

RECURSIVE InsertDesc(_, _)
InsertDesc(s, x) ==
    IF s = <<>> THEN <<x>>
    ELSE IF Head(s).amount >= x.amount THEN <<Head(s)>> \o InsertDesc(Tail(s), x)
    ELSE <<x>> \o s

RECURSIVE SortedFrom(_, _)
SortedFrom(acc, rest) ==
    IF rest = <<>> THEN acc
    ELSE SortedFrom(InsertDesc(acc, Head(rest)), Tail(rest))

(* sorted(filtered_docs, key=lambda x: float(x.get('amount', 0)),          *)
(* reverse=True): descending by amount, equal amounts in original order.   *)
sorted_docs(filtered_docs) == SortedFrom(<<>>, filtered_docs)

(* sorted_docs[start_idx:end_idx], Python slice semantics (0-based).       *)
Slice(s, start_idx, end_idx) ==
    SubSeq(s, Min(start_idx, Len(s)) + 1, Min(end_idx, Len(s)))

(* A page count that rounds down.                                          *)
total_pages_floor(n, page_size) == n \div page_size

(* total_pages = (len(filtered_docs) + page_size - 1) // page_size         *)
total_pages(n, page_size) == (n + page_size - 1) \div page_size

has_next(end_idx, n) == end_idx < n

PageWindow(filtered_docs, page, page_size) ==
    LET start_idx == (page - 1) * page_size
        end_idx   == start_idx + page_size
    IN  Slice(sorted_docs(filtered_docs), start_idx, end_idx)

(* The "transactions" and "pagination" fields of a response: set when      *)
(* request.show_all and filtered_docs are both truthy, None otherwise.     *)
Paginate(filtered_docs, page, page_size, show_all) ==
    IF show_all /\ filtered_docs # <<>>
    THEN LET start_idx == (page - 1) * page_size
             end_idx   == start_idx + page_size
             window    == PageWindow(filtered_docs, page, page_size)
         IN [transactions |->
                Some([i \in DOMAIN window |-> format_transaction_for_api(window[i])]),
             pagination |->
                Some([page |-> page, page_size |-> page_size,
                      total_items |-> Len(filtered_docs),
                      total_pages |-> total_pages(Len(filtered_docs), page_size),
                      has_next |-> has_next(end_idx, Len(filtered_docs)),
                      has_prev |-> page > 1])]
    ELSE [transactions |-> None, pagination |-> None]

---------------------------------------------------------------------------
(* transactions.py: query_with_prompt, the /prompt handler                 *)

(* A response of the handler.  from_cache and calls are not fields of the  *)
(* RAGResponse: they record which path served the request and which       *)
(* collaborators the handler invoked, in order.                            *)
Response(op, status, req) ==
    [op |-> op, status |-> status, req |-> req, query_id |-> None,
     mode |-> "", matching_transactions_count |-> 0, filters_applied |-> None,
     answer |-> None, transactions |-> None, pagination |-> None,
     statistics |-> None, from_cache |-> FALSE, calls |-> <<>>]

(* A handler that derives the query id itself, whatever the caller sent.  *)
RequestQueryId_generated(req, filters) == generate_query_id(req.prompt, filters, None)

(* Lines 486-492: the provided query_id, or the generated one.  The call   *)
(* is generate_query_id(request.prompt, filters): user_id takes its        *)
(* default, None.                                                          *)
RequestQueryId(req, filters) ==
    IF req.query_id # None THEN req.query_id[1]
    ELSE generate_query_id(req.prompt, filters, None)

(* A cached path that serves the first page whatever page is asked for.    *)
CachedResponse_first_page(req, query_id, cached_data, hp) ==
    LET filtered_docs == hp[cached_data.filtered_docs]
        pg == Paginate(filtered_docs, 1, req.page_size, req.show_all)
    IN  [Response("resolve", 200, req) EXCEPT
            !.query_id = Some(query_id),
            !.mode = cached_data.mode,
            !.matching_transactions_count = Len(filtered_docs),
            !.filters_applied = cached_data.filters_applied,
            !.answer = Some(cached_data.answer),
            !.transactions = pg.transactions,
            !.pagination = pg.pagination,
            !.statistics = cached_data.statistics,
            !.from_cache = TRUE]

(* Lines 497-539: the response served from a cache entry.                  *)
CachedResponse(req, query_id, cached_data, hp) ==
    LET filtered_docs == hp[cached_data.filtered_docs]
        pg == Paginate(filtered_docs, req.page, req.page_size, req.show_all)
    IN  [Response("resolve", 200, req) EXCEPT
            !.query_id = Some(query_id),
            !.mode = cached_data.mode,
            !.matching_transactions_count = Len(filtered_docs),
            !.filters_applied = cached_data.filters_applied,
            !.answer = Some(cached_data.answer),
            !.transactions = pg.transactions,
            !.pagination = pg.pagination,
            !.statistics = cached_data.statistics,
            !.from_cache = TRUE]

(* A mode in which a statistical classification wins over the caller's    *)
(* flag.                                                                   *)
ResolveMode_classifier_first(req, documents) ==
    IF detect_query_mode(req.prompt, documents) = "STATISTICAL" THEN "STATISTICAL"
    ELSE IF req.use_full_data # None
    THEN IF req.use_full_data[1] THEN "SMART_FULL" ELSE "VECTOR_SEARCH"
    ELSE detect_query_mode(req.prompt, documents)

(* Lines 547-550, and the same three lines at 77-80 and 236-239: the mode, *)
(* with the use_full_data override.                                        *)
ResolveMode(req, documents) ==
    IF req.use_full_data # None
    THEN IF req.use_full_data[1] THEN "SMART_FULL" ELSE "VECTOR_SEARCH"
    ELSE detect_query_mode(req.prompt, documents)

(* Lines 541-659: the page-1 / uncached path.  qc is the cache after the   *)
(* lookup, docs_obj the list object of the dataset, obj a free object for  *)
(* a list the branch creates.  alias: apply_filters hands back the list it *)
(* was given when nothing is filtered out, instead of a copy.  The         *)
(* analytical sub-path caches its answer with an empty list; the specific  *)
(* sub-path (lines 637-642) does not call cache_query_results.             *)
FreshResponse(req, query_id, filters, qc, hp, docs_obj, vectorstore, obj, alias) ==
    LET documents == hp[docs_obj]
        mode == ResolveMode(req, documents)
        base == [Response("resolve", 200, req) EXCEPT
                    !.query_id = Some(query_id), !.mode = mode]
        ListObj(matching) == IF alias /\ matching = documents THEN docs_obj ELSE obj
        Store(ans, docs, desc, stats) ==
            [qc |-> cache_query_results(qc, query_id, ans, mode, ListObj(docs),
                                        desc, stats, now),
             hp |-> [hp EXCEPT ![ListObj(docs)] = docs]]
    IN
    IF mode = "STATISTICAL"
    THEN LET r == process_statistical_query(documents, req.prompt)
             f == apply_filters(documents, filters, req.prompt)
             st == Store(r.answer, f.matching, Some(r.filter_desc), Some(r.stats))
         IN  [resp |-> [base EXCEPT
                          !.answer = Some(r.answer),
                          !.statistics = Some(r.stats),
                          !.filters_applied = Some(r.filter_desc),
                          !.matching_transactions_count = r.match_count,
                          !.calls = <<"classify", "filter", "generate",
                                      "filter", "store">>],
              qc |-> st.qc, hp |-> st.hp]
    ELSE IF mode = "SMART_FULL" \/ (req.use_full_data # None /\ req.use_full_data[1])
    THEN LET r == process_smart_full_query(documents, req.prompt, req.show_all)
             st == Store(r.answer, r.filtered_docs, Some(r.filter_descriptions), None)
             pg == Paginate(r.filtered_docs, req.page, req.page_size, req.show_all)
         IN  [resp |-> [base EXCEPT
                          !.answer = Some(r.answer),
                          !.matching_transactions_count = Len(r.filtered_docs),
                          !.filters_applied = Some(r.filter_descriptions),
                          !.transactions = pg.transactions,
                          !.pagination = pg.pagination,
                          !.calls = <<"classify", "filter", "generate", "store">>],
              qc |-> st.qc, hp |-> st.hp]
    ELSE IF is_analytical(req.prompt)
    THEN LET result == process_analytical_query(documents, req.prompt)
             st == Store(result, <<>>, None, None)
         IN  [resp |-> [base EXCEPT
                          !.answer = Some(result),
                          !.matching_transactions_count = Len(documents),
                          !.calls = <<"classify", "generate", "store">>],
              qc |-> st.qc, hp |-> st.hp]
    ELSE LET k_value == Min(RetrievalCeiling, Len(documents))
             result == process_vector_search_query(vectorstore, req.prompt, k_value)
         IN  [resp |-> [base EXCEPT
                          !.answer = Some(result),
                          !.matching_transactions_count = k_value,
                          !.calls = <<"classify", "retrieve", "generate">>],
              qc |-> qc, hp |-> hp]

(* Whether the page-1 / uncached path raises: the rag_service call fails   *)
(* (gen = "throws"), or the specific vector search has no index to search. *)
FreshRaises(req, documents, vectorstore, gen) ==
    \/ gen = "throws"
    \/ /\ ResolveMode(req, documents) = "VECTOR_SEARCH"
       /\ ~(req.use_full_data # None /\ req.use_full_data[1])
       /\ ~is_analytical(req.prompt)
       /\ vectorstore = None

(* query_with_prompt(request).  env: what the collaborators do during the  *)
(* call.  Yields the response and the cache, in-memory tier and heap after.*)
query_with_prompt(req, env) ==
    LET unchanged(r) == [resp |-> r, qc |-> query_cache, mc |-> memory_cache,
                         hp |-> heap]
    IN
    IF ~(models.embeddings_model /\ models.llm)
    THEN unchanged(Response("resolve", 503, req))
    ELSE IF ~has_ingested_data(req.user_id, env.db_ok)
    THEN unchanged(Response("resolve", 400, req))
    ELSE
    LET g == get_ingested_data(memory_cache, heap, req.user_id, FreshObj,
                               env.db_ok, env.build_ok)
        docs_obj == g.data.transactions
        documents == g.hp[docs_obj]
        vectorstore == g.data.vectorstore
        filters == extract_filters_from_query(req.prompt)
        query_id == RequestQueryId(req, filters)
        c == get_cached_query(query_cache, query_id, now, now)
        obj == MinOf(ObjIds \ (LiveRefs(legacy_store, g.mc, c[1], threads)
                               \cup {docs_obj}))
    IN
    IF c[2] # None /\ req.page > 1
    THEN [resp |-> CachedResponse(req, query_id, c[2][1], g.hp),
          qc |-> c[1], mc |-> g.mc, hp |-> g.hp]
    ELSE IF FreshRaises(req, documents, vectorstore, env.gen)
    THEN [resp |-> [Response("resolve", 500, req) EXCEPT
                       !.calls = <<"classify">>],
          qc |-> c[1], mc |-> g.mc, hp |-> g.hp]
    ELSE LET f == FreshResponse(req, query_id, filters, c[1], g.hp, docs_obj,
                                vectorstore, obj, env.alias)
         IN  [resp |-> f.resp, qc |-> f.qc, mc |-> g.mc, hp |-> f.hp]

Resolve(req, env) ==
    /\ Cardinality(FreeObjs) >= 2
    /\ \E r \in {query_with_prompt(req, env)} :
          /\ resp' = r.resp
          /\ Holders(legacy_store, r.mc, r.qc, threads, r.hp)
    /\ UNCHANGED <<now, db, DB_AVAILABLE, models, stream, fpIn, fpOut>>

(* Resolve, with a note in the response of whether the lookup of line 495 *)
(* found an entry under the query id of the request.                       *)
ResolveNoted(req, env) ==
    /\ Cardinality(FreeObjs) >= 2
    /\ \E r \in {query_with_prompt(req, env)} :
          /\ resp' = r.resp @@
                [entry_found |->
                    get_cached_query(query_cache,
                        RequestQueryId(req, extract_filters_from_query(req.prompt)),
                        now, now)[2] # None]
          /\ Holders(legacy_store, r.mc, r.qc, threads, r.hp)
    /\ UNCHANGED <<now, db, DB_AVAILABLE, models, stream, fpIn, fpOut>>

---------------------------------------------------------------------------
(* transactions.py: ingest_context_data, the /ingest handler               *)

(* build_ok: rag_service.create_vector_store succeeds.                     *)
(* limit: the background writes the model lets run at one time.           *)
IngestWithin(user_id, docs, build_ok, limit) ==
    LET req == [user_id |-> user_id, context_data |-> docs] IN
    /\ FreeObjs # {}
    /\ StartsSave(user_id) => Len(threads) < limit
    /\ IF ~(models.embeddings_model /\ models.llm)
       THEN /\ resp' = [op |-> "ingest", status |-> 503, req |-> req]
            /\ UNCHANGED <<memory_cache, legacy_store, query_cache, heap, threads>>
       ELSE IF ~build_ok
       THEN /\ resp' = [op |-> "ingest", status |-> 500, req |-> req]
            /\ UNCHANGED <<memory_cache, legacy_store, query_cache, heap, threads>>
       ELSE LET built == create_vector_store(docs)
                r == set_ingested_data(docs, FreshObj, built.vectorstore,
                                       built.langchain_docs, user_id)
            IN  /\ Holders(r.ls, r.mc, query_cache, r.th, r.hp)
                /\ resp' = [op |-> "ingest", status |-> 200, req |-> req,
                            transactions_ingested |-> Len(docs),
                            timestamp |->
                               IF Truthy(user_id)
                               THEN r.mc[storage_key(user_id)].last_updated
                               ELSE r.ls.last_updated]
    /\ UNCHANGED <<now, db, DB_AVAILABLE, models, stream, fpIn, fpOut>>

Ingest(user_id, docs, build_ok) == IngestWithin(user_id, docs, build_ok, MaxThreads)

---------------------------------------------------------------------------
(* data_store.py: the save_to_db background thread of set_ingested_data    *)

RemoveAt(s, i) == SubSeq(s, 1, i - 1) \o SubSeq(s, i + 1, Len(s))

(* Line 94: user_data = db.query(UserData).filter_by(...).first().  A      *)
(* failing read goes to the except branch: rollback, close.                *)
SaveQuery(i, ok) ==
    /\ i \in DOMAIN threads
    /\ threads[i].pc = "query"
    /\ Holders(legacy_store, memory_cache, query_cache,
               IF ok
               THEN [threads EXCEPT ![i].pc = "commit",
                                    ![i].found = threads[i].key \in DOMAIN db]
               ELSE RemoveAt(threads, i),
               heap)
    /\ UNCHANGED <<now, db, DB_AVAILABLE, models, resp, stream, fpIn, fpOut>>

(* A write that goes back to its query when the commit fails.              *)
SaveCommit_retry(i, ok) ==
    /\ i \in DOMAIN threads
    /\ threads[i].pc = "commit"
    /\ LET t == threads[i]
           row == [transactions |-> heap[t.transactions],
                   vectorstore_data |-> <<>>, last_updated |-> now]
           commits == ok /\ (t.found <=> t.key \in DOMAIN db)
       IN  /\ db' = IF commits
                    THEN [k \in DOMAIN db \cup {t.key} |->
                             IF k = t.key THEN row ELSE db[k]]
                    ELSE db
           /\ Holders(legacy_store, memory_cache, query_cache,
                      IF commits THEN RemoveAt(threads, i)
                      ELSE [threads EXCEPT ![i].pc = "query"],
                      heap)
    /\ UNCHANGED <<now, DB_AVAILABLE, models, resp, stream, fpIn, fpOut>>

(* A write that stores the serialized index in the row as well.           *)
SaveCommit_with_index(i, ok) ==
    /\ i \in DOMAIN threads
    /\ threads[i].pc = "commit"
    /\ LET t == threads[i]
           row == [transactions |-> heap[t.transactions],
                   vectorstore_data |-> <<"faiss">>, last_updated |-> now]
           commits == ok /\ (t.found <=> t.key \in DOMAIN db)
       IN  db' = IF commits
                 THEN [k \in DOMAIN db \cup {t.key} |->
                          IF k = t.key THEN row ELSE db[k]]
                 ELSE db
    /\ Holders(legacy_store, memory_cache, query_cache, RemoveAt(threads, i), heap)
    /\ UNCHANGED <<now, DB_AVAILABLE, models, resp, stream, fpIn, fpOut>>

(* A write whose failed commit is neither rolled back nor closed: the     *)
(* thread stays where it is.                                               *)
SaveCommit_stuck(i, ok) ==
    /\ i \in DOMAIN threads
    /\ threads[i].pc = "commit"
    /\ LET t == threads[i]
           row == [transactions |-> heap[t.transactions],
                   vectorstore_data |-> <<>>, last_updated |-> now]
           commits == ok /\ (t.found <=> t.key \in DOMAIN db)
       IN  /\ db' = IF commits
                    THEN [k \in DOMAIN db \cup {t.key} |->
                             IF k = t.key THEN row ELSE db[k]]
                    ELSE db
           /\ Holders(legacy_store, memory_cache, query_cache,
                      IF commits THEN RemoveAt(threads, i)
                      ELSE [threads EXCEPT ![i].pc = "failed"],
                      heap)
    /\ UNCHANGED <<now, DB_AVAILABLE, models, resp, stream, fpIn, fpOut>>

(* Lines 96-119: the update or insert, and db.commit().  ok: the commit    *)
(* reaches the database.  The table is keyed by user_id: an insert of a    *)
(* key that is present, or an update of a row that is gone, fails the      *)
(* commit.  A failed commit is rolled back; the session is closed.         *)
SaveCommit(i, ok) ==
    /\ i \in DOMAIN threads
    /\ threads[i].pc = "commit"
    /\ LET t == threads[i]
           row == [transactions |-> heap[t.transactions],
                   vectorstore_data |-> <<>>, last_updated |-> now]
           commits == ok /\ (t.found <=> t.key \in DOMAIN db)
       IN  db' = IF commits
                 THEN [k \in DOMAIN db \cup {t.key} |->
                          IF k = t.key THEN row ELSE db[k]]
                 ELSE db
    /\ Holders(legacy_store, memory_cache, query_cache, RemoveAt(threads, i), heap)
    /\ UNCHANGED <<now, DB_AVAILABLE, models, resp, stream, fpIn, fpOut>>

---------------------------------------------------------------------------
(* data_store.py: clear_ingested_data called by a client of the store      *)

Clear(user_id, db_ok) ==
    LET r == clear_ingested_data(user_id, FreshObj, db_ok) IN
    /\ FreeObjs # {}
    /\ db' = r.db
    /\ Holders(r.ls, r.mc, query_cache, threads, r.hp)
    /\ resp' = [op |-> "clear", req |-> [user_id |-> user_id], db_ok |-> db_ok]
    /\ UNCHANGED <<now, DB_AVAILABLE, models, stream, fpIn, fpOut>>

---------------------------------------------------------------------------
(* data_store.py: get_ingested_data and has_ingested_data called by a      *)
(* client of the store, and the restart of the process.                    *)

(* A dataset with its list of transactions by value.                       *)
DataValue(data, h) == [data EXCEPT !.transactions = h[@]]

Get(user_id, db_ok, build_ok) ==
    /\ FreeObjs # {}
    /\ \E r \in {get_ingested_data(memory_cache, heap, user_id, FreshObj,
                                   db_ok, build_ok)} :
          /\ Holders(legacy_store, r.mc, query_cache, threads, r.hp)
          /\ resp' = [op |-> "get", req |-> [user_id |-> user_id],
                      db_ok |-> db_ok, build_ok |-> build_ok,
                      data |-> DataValue(r.data, r.hp), calls |-> r.calls]
    /\ UNCHANGED <<now, db, DB_AVAILABLE, models, stream, fpIn, fpOut>>

Exists(user_id, db_ok) ==
    /\ resp' = [op |-> "exists", req |-> [user_id |-> user_id],
                db_ok |-> db_ok, result |-> has_ingested_data(user_id, db_ok)]
    /\ UNCHANGED <<now, query_cache, memory_cache, legacy_store, heap, db,
                   threads, DB_AVAILABLE, models, stream, fpIn, fpOut>>

(* The process stops and starts again: the module-level stores are back at *)
(* their initial values and the daemon threads are gone; the database      *)
(* keeps its rows.                                                         *)
Restart ==
    /\ query_cache' = <<>>
    /\ memory_cache' = <<>>
    /\ legacy_store' = EmptyData(1)
    /\ heap' = [o \in ObjIds |-> <<>>]
    /\ threads' = <<>>
    /\ resp' = [op |-> "restart"]
    /\ stream' = None
    /\ UNCHANGED <<now, db, DB_AVAILABLE, models, fpIn, fpOut>>

---------------------------------------------------------------------------
(* The clock.                                                              *)
Tick(d) ==
    /\ now + d <= MaxTime
    /\ now' = now + d
    /\ UNCHANGED <<query_cache, memory_cache, legacy_store, heap, db, threads,
                   DB_AVAILABLE, models, resp, stream, fpIn, fpOut>>

---------------------------------------------------------------------------
(* cache.py called directly: store, lookup and sweep.                      *)

CacheStore(query_id, answer, docs) ==
    /\ FreeObjs # {}
    /\ Holders(legacy_store, memory_cache,
               cache_query_results(query_cache, query_id, answer, "SMART_FULL",
                                   FreshObj, None, None, now),
               threads, [heap EXCEPT ![FreshObj] = docs])
    /\ resp' = [op |-> "store", query_id |-> query_id, answer |-> answer,
                docs |-> docs,
                replaced |-> IF query_id \in DOMAIN query_cache
                             THEN Some(query_cache[query_id].timestamp)
                             ELSE None]
    /\ UNCHANGED <<now, db, DB_AVAILABLE, models, stream, fpIn, fpOut>>

(* late: the clock moves on a tick between the sweep and the check of      *)
(* the entry (the two datetime.now() reads of get_cached_query).           *)
CacheLookup(query_id, late) ==
    LET t2 == IF late THEN now + TickMinutes ELSE now
        c  == get_cached_query(query_cache, query_id, now, t2)
    IN  /\ t2 <= MaxTime
        /\ now' = t2
        /\ Holders(legacy_store, memory_cache, c[1], threads, heap)
        /\ resp' = [op |-> "lookup", query_id |-> query_id,
                    removed |-> DOMAIN query_cache \ DOMAIN c[1],
                    result |-> IF c[2] = None THEN None
                               ELSE Some([answer |-> c[2][1].answer,
                                          docs |-> heap[c[2][1].filtered_docs],
                                          timestamp |-> c[2][1].timestamp])]
        /\ UNCHANGED <<db, DB_AVAILABLE, models, stream, fpIn, fpOut>>

CacheSweep ==
    /\ Holders(legacy_store, memory_cache,
               cleanup_expired_cache(query_cache, now), threads, heap)
    /\ resp' = [op |-> "sweep"]
    /\ UNCHANGED <<now, db, DB_AVAILABLE, models, stream, fpIn, fpOut>>

---------------------------------------------------------------------------
(* generate_query_id applied to the two argument triples of fpIn.          *)
FpCall ==
    /\ fpOut = None
    /\ fpOut' = Some([i \in DOMAIN fpIn |->
                        [key |-> cache_key(fpIn[i].prompt, fpIn[i].filters,
                                           fpIn[i].user_id),
                         id  |-> generate_query_id(fpIn[i].prompt, fpIn[i].filters,
                                                   fpIn[i].user_id)]])
    /\ UNCHANGED <<now, query_cache, memory_cache, legacy_store, heap, db,
                   threads, DB_AVAILABLE, models, resp, stream, fpIn>>

---------------------------------------------------------------------------
(* transactions.py: query_transactions, the /query handler.  The request   *)
(* carries its own context_data; the handler reads and writes no store.    *)

(* Lines 99-164: the branch the handler takes for a mode, named after the  *)
(* rag_service call it makes.                                              *)
BranchOf(mode, req) ==
    IF mode = "STATISTICAL" THEN "STATISTICAL"
    ELSE IF mode = "SMART_FULL" \/ (req.use_full_data # None /\ req.use_full_data[1])
    THEN "SMART_FULL"
    ELSE IF is_analytical(req.prompt) THEN "ANALYTICAL"
    ELSE "SPECIFIC"

(* query_transactions(request).  env.build_ok: create_vector_store         *)
(* succeeds; env.gen: the rag_service call succeeds or raises.  An         *)
(* exception anywhere in the try block becomes a 500.                      *)
query_transactions(req, env) ==
    IF ~(models.embeddings_model /\ models.llm)
    THEN Response("query", 503, req)
    ELSE IF ~env.build_ok
    THEN Response("query", 500, req)
    ELSE
    LET documents == req.context_data
        vectorstore == create_vector_store(documents).vectorstore
        filters == extract_filters_from_query(req.prompt)
        mode == ResolveMode(req, documents)
        query_id == generate_query_id(req.prompt, filters, None)
        branch == BranchOf(mode, req)
        base == [Response("query", 200, req) EXCEPT
                    !.query_id = Some(query_id), !.mode = mode]
    IN
    IF env.gen = "throws"
    THEN [Response("query", 500, req) EXCEPT !.calls = <<"classify">>]
    ELSE IF branch = "STATISTICAL"
    THEN LET r == process_statistical_query(documents, req.prompt)
         IN  [base EXCEPT !.answer = Some(r.answer),
                          !.statistics = Some(r.stats),
                          !.filters_applied = Some(r.filter_desc),
                          !.matching_transactions_count = r.match_count,
                          !.calls = <<"classify", "filter", "generate">>]
    ELSE IF branch = "SMART_FULL"
    THEN LET r == process_smart_full_query(documents, req.prompt, req.show_all)
             pg == Paginate(r.filtered_docs, req.page, req.page_size, req.show_all)
         IN  [base EXCEPT !.answer = Some(r.answer),
                          !.matching_transactions_count = Len(r.filtered_docs),
                          !.filters_applied = Some(r.filter_descriptions),
                          !.transactions = pg.transactions,
                          !.pagination = pg.pagination,
                          !.calls = <<"classify", "filter", "generate">>]
    ELSE IF branch = "ANALYTICAL"
    THEN [base EXCEPT !.answer = Some(process_analytical_query(documents, req.prompt)),
                      !.matching_transactions_count = Len(documents),
                      !.calls = <<"classify", "generate">>]
    ELSE LET k_value == Min(RetrievalCeiling, Len(documents))
         IN  [base EXCEPT
                 !.answer = Some(process_vector_search_query(vectorstore,
                                                             req.prompt, k_value)),
                 !.matching_transactions_count = k_value,
                 !.calls = <<"classify", "retrieve", "generate">>]

Query(req, env) ==
    /\ resp' = query_transactions(req, env)
    /\ UNCHANGED <<now, query_cache, memory_cache, legacy_store, heap, db,
                   threads, DB_AVAILABLE, models, stream, fpIn, fpOut>>

---------------------------------------------------------------------------
(* transactions.py: query_transactions_stream, the /query/stream handler,  *)
(* and its generator generate_stream.  The handler returns the             *)
(* StreamingResponse; the generator then runs on the event loop from one   *)
(* yield to the next, other handlers running in between.  The generator    *)
(* keeps the transaction list it read alive and nothing mutates a list in  *)
(* place, so the generator's reference is kept as the list's value.        *)

(* The chunks a generation stream yields at most.                          *)
MaxChunks == 2

Frame(type) == [type |-> type]

FrameTypes(frames) == [i \in DOMAIN frames |-> frames[i].type]

Chunks(frames) == Cardinality({i \in DOMAIN frames : frames[i].type = "chunk"})

(* A guard of the streaming handler that looks at the synchronous engine.  *)
StreamModelsMissing_checks_llm == ~(models.embeddings_model /\ models.llm)

(* Line 204: if not embeddings_model or not llm_streaming                  *)
StreamModelsMissing == ~(models.embeddings_model /\ models.llm_streaming)

(* Lines 204-215 and 362-370: the guards, then the StreamingResponse.      *)
StreamOpen(req, db_ok) ==
    /\ IF stream = None THEN TRUE ELSE stream[1].pc \in {"closed", "cancelled"}
    /\ IF StreamModelsMissing
       THEN /\ resp' = [op |-> "stream", status |-> 503, req |-> req]
            /\ UNCHANGED stream
       ELSE IF ~has_ingested_data(req.user_id, db_ok)
       THEN /\ resp' = [op |-> "stream", status |-> 400, req |-> req]
            /\ UNCHANGED stream
       ELSE /\ resp' = [op |-> "stream", status |-> 200, req |-> req]
            /\ stream' = Some([pc |-> "start", req |-> req, frames |-> <<>>,
                               mode |-> "", branch |-> "", documents |-> <<>>,
                               vectorstore |-> None, cancelled |-> FALSE])
    /\ UNCHANGED <<now, query_cache, memory_cache, legacy_store, heap, db,
                   threads, DB_AVAILABLE, models, fpIn, fpOut>>

(* Lines 218-253: up to the first yield.  The dataset is read here, not in *)
(* the handler; the metadata frame carries the query id and the mode.      *)
StreamStart(db_ok, build_ok) ==
    /\ stream # None
    /\ stream[1].pc = "start"
    /\ FreeObjs # {}
    /\ \E g \in {get_ingested_data(memory_cache, heap, stream[1].req.user_id,
                                   FreshObj, db_ok, build_ok)} :
          LET req == stream[1].req
              documents == g.hp[g.data.transactions]
              filters == extract_filters_from_query(req.prompt)
              mode == ResolveMode(req, documents)
              metadata == [type |-> "metadata",
                           query_id |-> generate_query_id(req.prompt, filters, None),
                           mode |-> mode, matching_transactions_count |-> 0]
          IN  /\ stream' = Some([stream[1] EXCEPT
                                    !.pc = "body", !.frames = <<metadata>>,
                                    !.mode = mode, !.documents = documents,
                                    !.vectorstore = g.data.vectorstore])
              /\ Holders(legacy_store, g.mc, query_cache, threads, g.hp)
    /\ UNCHANGED <<now, db, DB_AVAILABLE, models, resp, fpIn, fpOut>>

(* Lines 354-360: the except clause yields the error frame and the         *)
(* generator returns.                                                      *)
Fail(st) ==
    [st EXCEPT !.pc = "closed", !.frames = Append(@, Frame("error"))]

(* A generator that sends done after the error frame.                      *)
StreamBody_done_after_error(st, ev) ==
    LET req == st.req
        branch == BranchOf(st.mode, req)
        taken == [st EXCEPT !.branch = branch]
    IN
    IF ev = "throws" \/ (branch = "SPECIFIC" /\ st.vectorstore = None)
    THEN [taken EXCEPT !.pc = "final", !.frames = Append(@, Frame("error"))]
    ELSE IF branch = "STATISTICAL"
    THEN [taken EXCEPT !.pc = "stats", !.frames = Append(@, Frame("chunk"))]
    ELSE IF ev = "chunk"
    THEN [taken EXCEPT !.frames = Append(@, Frame("chunk"))]
    ELSE [taken EXCEPT !.pc = "final", !.frames = Append(@, Frame("metadata_final"))]

(* A generator that reads the store again for its final metadata.         *)
StreamBody_rereads(st, ev) ==
    LET req == st.req
        branch == BranchOf(st.mode, req)
        taken == [st EXCEPT !.branch = branch]
        stored == get_ingested_data(memory_cache, heap, req.user_id, 1, TRUE, TRUE)
        current == stored.hp[stored.data.transactions]
    IN
    IF ev = "throws" \/ (branch = "SPECIFIC" /\ st.vectorstore = None)
    THEN Fail(taken)
    ELSE IF branch = "STATISTICAL"
    THEN LET r == process_statistical_query(st.documents, req.prompt)
         IN  [taken EXCEPT !.pc = "stats",
                           !.frames = Append(@, [type |-> "chunk",
                                                 content |-> r.answer])]
    ELSE IF ev = "chunk"
    THEN [taken EXCEPT !.frames = Append(@, [type |-> "chunk",
                                             content |-> Chunks(st.frames) + 1])]
    ELSE IF branch = "SMART_FULL"
    THEN LET f == apply_filters(current,
                                extract_filters_from_query(req.prompt), req.prompt)
         IN  [taken EXCEPT !.pc = "final",
                           !.frames = Append(@, [type |-> "metadata_final",
                                matching_transactions_count |-> Len(f.matching),
                                filters_applied |-> f.descriptions])]
    ELSE LET count == IF branch = "ANALYTICAL" THEN Len(st.documents)
                      ELSE Min(RetrievalCeiling, Len(st.documents))
         IN  [taken EXCEPT !.pc = "final",
                           !.frames = Append(@, [type |-> "metadata_final",
                                                 matching_transactions_count |-> count])]

(* Lines 256-346: from one yield of the branch to the next.  The final     *)
(* metadata frame of the full-data branch carries filters_applied (lines   *)
(* 294-298); that of the analytical and specific branches carries the      *)
(* count alone (lines 327-330, 342-345).  ev is what                       *)
(* the rag_service call does when resumed: the statistical call returns    *)
(* ("end") or raises; a generation stream yields a chunk, ends, or raises. *)
(* The specific branch has no index to search when the vectorstore is      *)
(* None.  The statistical branch sends its whole answer as one chunk.      *)
StreamBody(st, ev) ==
    LET req == st.req
        branch == BranchOf(st.mode, req)
        taken == [st EXCEPT !.branch = branch]
    IN
    IF ev = "throws" \/ (branch = "SPECIFIC" /\ st.vectorstore = None)
    THEN Fail(taken)
    ELSE IF branch = "STATISTICAL"
    THEN LET r == process_statistical_query(st.documents, req.prompt)
         IN  [taken EXCEPT !.pc = "stats",
                           !.frames = Append(@, [type |-> "chunk",
                                                 content |-> r.answer])]
    ELSE IF ev = "chunk"
    THEN [taken EXCEPT !.frames = Append(@, [type |-> "chunk",
                                             content |-> Chunks(st.frames) + 1])]
    ELSE IF branch = "SMART_FULL"
    THEN LET f == apply_filters(st.documents,
                                extract_filters_from_query(req.prompt), req.prompt)
         IN  [taken EXCEPT !.pc = "final",
                           !.frames = Append(@, [type |-> "metadata_final",
                                matching_transactions_count |-> Len(f.matching),
                                filters_applied |-> f.descriptions])]
    ELSE LET count == IF branch = "ANALYTICAL" THEN Len(st.documents)
                      ELSE Min(RetrievalCeiling, Len(st.documents))
         IN  [taken EXCEPT !.pc = "final",
                           !.frames = Append(@, [type |-> "metadata_final",
                                                 matching_transactions_count |-> count])]

StreamEvents == {"chunk", "end", "throws"}

StreamStep(ev) ==
    /\ stream # None
    /\ stream[1].pc = "body"
    /\ ev = "chunk" =>
          /\ BranchOf(stream[1].mode, stream[1].req) # "STATISTICAL"
          /\ Chunks(stream[1].frames) < MaxChunks
    /\ stream' = Some(StreamBody(stream[1], ev))
    /\ UNCHANGED <<now, query_cache, memory_cache, legacy_store, heap, db,
                   threads, DB_AVAILABLE, models, resp, fpIn, fpOut>>

(* Lines 267-274: the statistics frame of the statistical branch.  ok:     *)
(* json.dumps can serialise the statistics.                                *)
StreamStats(ok) ==
    /\ stream # None
    /\ stream[1].pc = "stats"
    /\ stream' = Some(IF ok
                      THEN LET r == process_statistical_query(
                                        stream[1].documents, stream[1].req.prompt)
                           IN  [stream[1] EXCEPT
                                  !.pc = "final",
                                  !.frames = Append(@, [type |-> "statistics",
                                       statistics |-> r.stats,
                                       filters_applied |-> r.filter_desc,
                                       matching_transactions_count |-> r.match_count])]
                      ELSE Fail(stream[1]))
    /\ UNCHANGED <<now, query_cache, memory_cache, legacy_store, heap, db,
                   threads, DB_AVAILABLE, models, resp, fpIn, fpOut>>

(* Lines 348-352: the done frame; the generator returns.                   *)
StreamDone ==
    /\ stream # None
    /\ stream[1].pc = "final"
    /\ stream' = Some([stream[1] EXCEPT !.pc = "closed",
                                        !.frames = Append(@, Frame("done"))])
    /\ UNCHANGED <<now, query_cache, memory_cache, legacy_store, heap, db,
                   threads, DB_AVAILABLE, models, resp, fpIn, fpOut>>

(* A disconnect that is noted while the generator stays scheduled.         *)
Cancelled_detached(st) == [st EXCEPT !.cancelled = TRUE]

(* The caller disconnects while the generator is suspended at a yield: the *)
(* response task is cancelled and the generator closed.  CancelledError    *)
(* and GeneratorExit are not Exceptions, so the except clause of line 354  *)
(* does not run and no frame follows; the generator is never resumed.      *)
Cancelled(st) == [st EXCEPT !.cancelled = TRUE, !.pc = "cancelled"]

StreamCancel ==
    /\ stream # None
    /\ stream[1].pc \in {"start", "body", "stats", "final"}
    /\ ~stream[1].cancelled
    /\ stream' = Some(Cancelled(stream[1]))
    /\ UNCHANGED <<now, query_cache, memory_cache, legacy_store, heap, db,
                   threads, DB_AVAILABLE, models, resp, fpIn, fpOut>>

(* transactions.set_models(emb_model, llm_model, llm_stream=None): each    *)
(* reference is set to an engine or to None.                               *)
SetModels(emb_model, llm_model, llm_stream) ==
    /\ models' = [embeddings_model |-> emb_model, llm |-> llm_model,
                  llm_streaming |-> llm_stream]
    /\ resp' = [op |-> "set_models"]
    /\ UNCHANGED <<now, query_cache, memory_cache, legacy_store, heap, db,
                   threads, DB_AVAILABLE, stream, fpIn, fpOut>>

---------------------------------------------------------------------------
(* answer_generator.py: the answer text made with the generation engine.   *)
(* llm is what the engine does: "ok" answers, "throws" raises from invoke  *)
(* or astream, "none" is no engine (llm_instance falsy).                   *)

LlmOutcomes == {"ok", "throws", "none"}

DevanagariWords == {"kitne_hi", "kitni_hi", "tranz_hi"}
HinglishWords == {"mujhe", "saari", "dikhao", "batao", "kya", "ki", "se", "ko"}
HinglishWordsStream == {"mujhe", "saari", "dikhao", "batao", "kya"}

(* Lines 105-113 and 207-215: the template answer, in the language of the  *)
(* question, with the count and the total of the transactions.             *)
Template(question, filtered_docs) ==
    [kind |-> "template",
     lang |-> IF Has(question, DevanagariWords) THEN "hindi"
              ELSE IF Has(question, HinglishWords) THEN "hinglish"
              ELSE "english",
     count |-> Len(filtered_docs), total |-> SumAmounts(filtered_docs)]

(* generate_conversational_answer(question, filtered_docs, ...,            *)
(* llm_instance), lines 11-113: without transactions a fixed text; with an *)
(* engine its response; when invoke raises (lines 97-102) the exception    *)
(* is logged and the template is returned, as it is without an engine.     *)
generate_conversational_answer(question, filtered_docs, llm) ==
    IF filtered_docs = <<>>
    THEN [outcome |-> "returns", llm_called |-> FALSE,
          answer |-> [kind |-> "no_transactions"]]
    ELSE IF llm = "ok"
    THEN [outcome |-> "returns", llm_called |-> TRUE,
          answer |-> Answer("llm", question, filtered_docs)]
    ELSE [outcome |-> "returns", llm_called |-> llm = "throws",
          answer |-> Template(question, filtered_docs)]

(* generate_conversational_answer_stream(...), lines 116-216: the chunks   *)
(* it yields.  k: the chunks the engine yields before it ends or raises.   *)
(* When astream raises (lines 194-204) the exception is logged, the        *)
(* template is yielded as one more chunk and the generator ends normally.  *)
generate_conversational_answer_stream(question, filtered_docs, llm, k) ==
    IF filtered_docs = <<>>
    THEN [outcome |-> "returns", llm_called |-> FALSE,
          chunks |-> <<[kind |-> "no_transactions",
                        lang |-> IF Has(question, DevanagariWords) THEN "hindi"
                                 ELSE IF Has(question, HinglishWordsStream)
                                 THEN "hinglish" ELSE "english"]>>]
    ELSE IF llm = "none"
    THEN [outcome |-> "returns", llm_called |-> FALSE,
          chunks |-> <<Template(question, filtered_docs)>>]
    ELSE LET sent == [i \in 1..k |-> [kind |-> "llm", n |-> i]] IN
         [outcome |-> "returns", llm_called |-> TRUE,
          chunks |-> IF llm = "ok" THEN sent
                     ELSE Append(sent, [kind |-> "template", lang |-> "english",
                                        count |-> Len(filtered_docs),
                                        total |-> SumAmounts(filtered_docs)])]

GenCall(question, filtered_docs, llm) ==
    /\ resp' = [op |-> "generate", question |-> question, docs |-> filtered_docs,
                llm |-> llm,
                result |-> generate_conversational_answer(question, filtered_docs, llm)]
    /\ UNCHANGED <<now, query_cache, memory_cache, legacy_store, heap, db,
                   threads, DB_AVAILABLE, models, stream, fpIn, fpOut>>

GenStreamCall(question, filtered_docs, llm, k) ==
    /\ resp' = [op |-> "generate_stream", question |-> question,
                docs |-> filtered_docs, llm |-> llm,
                result |-> generate_conversational_answer_stream(question,
                                                                 filtered_docs, llm, k)]
    /\ UNCHANGED <<now, query_cache, memory_cache, legacy_store, heap, db,
                   threads, DB_AVAILABLE, models, stream, fpIn, fpOut>>

---------------------------------------------------------------------------
(* The state after import and startup: empty stores and cache, the models  *)
(* set by the lifespan handler.                                            *)
InitStores ==
    /\ now = 0
    /\ query_cache = <<>>
    /\ memory_cache = <<>>
    /\ legacy_store = EmptyData(1)
    /\ heap = [o \in ObjIds |-> <<>>]
    /\ db = <<>>
    /\ threads = <<>>
    /\ models = [embeddings_model |-> TRUE, llm |-> TRUE, llm_streaming |-> TRUE]
    /\ resp = [op |-> "none"]
    /\ stream = None

---------------------------------------------------------------------------
(* SpecFp: generate_query_id as a function of its arguments.               *)

FpUserIds == {None, Some(<<>>), Some(<<"a">>), Some(<<"b">>), Some(<<"a", "_">>)}
FpPrompts == SeqsUpTo({"x", "_"}, MaxPromptLen)
FpFilters ==
    {f \in SeqsUpTo({<<"min_amount", 80>>, <<"min_amount", 100>>,
                     <<"max_amount", 200>>}, 2) : IsDict(f)}
FpArgs == [user_id : FpUserIds, prompt : FpPrompts, filters : FpFilters]

InitFp ==
    /\ InitStores
    /\ DB_AVAILABLE = FALSE
    /\ fpIn \in [1..2 -> FpArgs]
    /\ fpOut = None

NextFp == FpCall

SpecFp == InitFp /\ [][NextFp]_vars

(* The identity a user_id stands for: the reserved global identity for     *)
(* None and for the empty string, the named user otherwise.                *)
IdentityOf(user_id) == IF Truthy(user_id) THEN user_id ELSE None

SameArgs(a, b) ==
    /\ IdentityOf(a.user_id) = IdentityOf(b.user_id)
    /\ a.prompt = b.prompt
    /\ DictEq(a.filters, b.filters)

(* Exactly one of identity, question and filters differs.                  *)
OneArgChanged(a, b) ==
    Cardinality({x \in {"identity", "prompt", "filters"} :
        \/ x = "identity" /\ IdentityOf(a.user_id) # IdentityOf(b.user_id)
        \/ x = "prompt" /\ a.prompt # b.prompt
        \/ x = "filters" /\ ~DictEq(a.filters, b.filters)}) = 1

(* C7: generate_query_id is deterministic - equal (identity, question,     *)
(* filters), whatever the key order of the filter mapping, give the same   *)
(* hashed string and the same id - and sensitive: changing exactly one of  *)
(* the three arguments changes the string that is hashed.                  *)
C7_FingerprintDeterministicSensitive ==
    fpOut # None =>
        /\ SameArgs(fpIn[1], fpIn[2])
              => /\ fpOut[1][1].key = fpOut[1][2].key
                 /\ fpOut[1][1].id = fpOut[1][2].id
        /\ OneArgChanged(fpIn[1], fpIn[2])
              => fpOut[1][1].key # fpOut[1][2].key

(* C7 witness: two filter mappings with the same items in different key    *)
(* order were fingerprinted.                                               *)
C7_Witness ==
    /\ fpOut # None
    /\ SameArgs(fpIn[1], fpIn[2])
    /\ fpIn[1].filters # fpIn[2].filters
    /\ Len(fpIn[1].filters) = 2

---------------------------------------------------------------------------
(* SpecTTL: the Query Result Cache driven through its three functions,     *)
(* with the clock moving TickMinutes at a time.                            *)

TtlQueryIds == {generate_query_id(<<"all">>, <<>>, None),
                generate_query_id(<<"all">>, <<>>, Some(<<"a">>))}
TtlDocs == {<<>>, <<Txn("g", 1, 100)>>}

InitTTL ==
    /\ InitStores
    /\ DB_AVAILABLE = FALSE
    /\ fpIn = <<>>
    /\ fpOut = None

NextTTL ==
    \/ \E q \in TtlQueryIds, d \in TtlDocs :
          CacheStore(q, Answer("smart_full", <<"all">>, d), d)
    \/ \E q \in TtlQueryIds, late \in BOOLEAN : CacheLookup(q, late)
    \/ CacheSweep
    \/ Tick(TickMinutes)

SpecTTL == InitTTL /\ [][NextTTL]_vars

(* What a lookup hands back of an entry, as CacheLookup reports it.        *)
Reported(entry, h) ==
    [answer |-> entry.answer, docs |-> h[entry.filtered_docs],
     timestamp |-> entry.timestamp]

(* C5: an entry stored at T is returned by a lookup that runs before       *)
(* T + TTL and is absent for a lookup that runs after T + TTL; a lookup    *)
(* that reports the entry absent leaves no entry under that id; and the    *)
(* sweep keeps exactly the entries a lookup at the same time returns.      *)
C5_TTL ==
    [][\A q \in TtlQueryIds, late \in BOOLEAN :
         CacheLookup(q, late) =>
            /\ (q \in DOMAIN query_cache
                /\ now' < query_cache[q].timestamp + CACHE_TTL_MINUTES)
                  => /\ resp'.result = Some(Reported(query_cache[q], heap))
                     /\ q \in DOMAIN query_cache'
                     /\ EntryValue(query_cache'[q], heap')
                           = EntryValue(query_cache[q], heap)
            /\ (q \in DOMAIN query_cache
                /\ now > query_cache[q].timestamp + CACHE_TTL_MINUTES)
                  => resp'.result = None
            /\ resp'.result = None => q \notin DOMAIN query_cache'
            /\ \A k \in DOMAIN query_cache :
                  k \in DOMAIN cleanup_expired_cache(query_cache, now)
                     <=> get_cached_query(query_cache, k, now, now)[2] # None
      ]_vars

(* C5 witness: a lookup found its entry expired and removed it.            *)
C5_Witness ==
    /\ resp.op = "lookup"
    /\ resp.result = None
    /\ resp.query_id \in resp.removed
    /\ resp.query_id \notin DOMAIN query_cache

(* C6: store overwrites the entry under its fingerprint and resets its     *)
(* age - right after store(fp, e) at time T a lookup of fp returns e's     *)
(* fields, the entry is valid up to T + TTL and expired after it whatever  *)
(* the age of the entry it replaced - and leaves every other entry as it   *)
(* was.                                                                    *)
C6_StoreOverwrites ==
    [][\A q \in TtlQueryIds, d \in TtlDocs :
         CacheStore(q, Answer("smart_full", <<"all">>, d), d) =>
            /\ DOMAIN query_cache' = DOMAIN query_cache \cup {q}
            /\ LET hit == get_cached_query(query_cache', q, now, now)[2] IN
                  /\ hit # None
                  /\ Reported(hit[1], heap')
                       = [answer |-> Answer("smart_full", <<"all">>, d),
                          docs |-> d, timestamp |-> now]
            /\ \A t \in now..(MaxTime + CACHE_TTL_MINUTES) :
                  get_cached_query(query_cache', q, t, t)[2] # None
                     <=> t <= now + CACHE_TTL_MINUTES
            /\ \A k \in DOMAIN query_cache \ {q} :
                  EntryValue(query_cache'[k], heap')
                     = EntryValue(query_cache[k], heap)
      ]_vars

(* C6 witness: a store replaced an older entry while another fingerprint   *)
(* held an entry too.                                                      *)
C6_Witness ==
    /\ resp.op = "store"
    /\ resp.replaced # None
    /\ resp.replaced[1] < now
    /\ resp.docs # <<>>
    /\ DOMAIN query_cache = TtlQueryIds

---------------------------------------------------------------------------
(* SpecResolve: the /prompt handler over the reserved global identity -    *)
(* ingestion, deletion, every mode, fresh and cached pages, a failing      *)
(* generation call - with the clock jumping past the time-to-live.         *)

(* The transaction lists an identity ingests: its own transactions.        *)
Datasets(user_id) ==
    LET o == storage_key(user_id) IN
    {<<Txn(o, 1, 100), Txn(o, 2, 500), Txn(o, 3, 50)>>, <<Txn(o, 4, 500)>>}

Prompts == {<<"total">>, <<"all">>, <<"summary">>, <<"x">>}

Request(user_id, prompt, page, page_size, show_all) ==
    [user_id |-> user_id, prompt |-> prompt, page |-> page,
     page_size |-> page_size, show_all |-> show_all, use_full_data |-> None,
     query_id |-> None]

Env(gen, alias) == [gen |-> gen, alias |-> alias, db_ok |-> TRUE, build_ok |-> TRUE]

(* What the collaborators do during a call: the generation call succeeds   *)
(* with or without apply_filters handing back its argument, or it raises.  *)
Envs == {Env("ok", FALSE), Env("ok", TRUE), Env("throws", FALSE)}

ResolveRequests ==
    {Request(None, p, page, 2, show_all) :
        p \in Prompts, page \in 1..MaxPage, show_all \in BOOLEAN}

InitResolve ==
    /\ InitStores
    /\ DB_AVAILABLE = FALSE
    /\ fpIn = <<>>
    /\ fpOut = None

NextResolve ==
    \/ \E d \in Datasets(None) : Ingest(None, d, TRUE)
    \/ Clear(None, TRUE)
    \/ \E req \in ResolveRequests, env \in Envs : Resolve(req, env)
    \/ Tick(CACHE_TTL_MINUTES + 1)

SpecResolve == InitResolve /\ [][NextResolve]_vars

(* The unexpired entry, if any, that the handler finds for a request.      *)
Lookup(req) ==
    get_cached_query(query_cache,
                     RequestQueryId(req, extract_filters_from_query(req.prompt)),
                     now, now)[2]

(* The step is a call of the /prompt handler; resp' holds its request.     *)
ResolveStep == resp'.op = "resolve" /\ \E env \in Envs : Resolve(resp'.req, env)

(* The page of a list the claims speak of: items (p-1)P+1 .. pP of the     *)
(* list sorted by amount, descending, formatted for the API.               *)
FormattedWindow(docs, page, page_size) ==
    LET w == Slice(sorted_docs(docs), (page - 1) * page_size, page * page_size)
    IN  [i \in DOMAIN w |-> format_transaction_for_api(w[i])]

(* C2, as stated: every pagination request (page > 1) whose fingerprint is *)
(* present and unexpired is answered with the cached answer and the window *)
(* of the cached matching subset.                                          *)
C2_CachedPageAlwaysWindow ==
    [][ResolveStep =>
          LET req == resp'.req
              hit == Lookup(req)
          IN  (req.page > 1 /\ hit # None) =>
                 /\ resp'.status = 200
                 /\ resp'.answer = Some(hit[1].answer)
                 /\ resp'.transactions
                      = Some(FormattedWindow(heap[hit[1].filtered_docs],
                                             req.page, req.page_size))
      ]_vars

(* C2: a pagination request (page > 1) of an identity that has data, whose *)
(* fingerprint is present and unexpired, calls no classification, filter   *)
(* or generation collaborator and leaves the entry as it was; it returns   *)
(* the cached answer, mode, filter descriptions and statistics, and - when *)
(* show_all is set and the cached subset is not empty - the window of the  *)
(* cached subset sorted by amount; otherwise no transactions and no        *)
(* pagination block.                                                       *)
C2_CachedPagination ==
    [][ResolveStep =>
          LET req == resp'.req
              hit == Lookup(req)
          IN  (req.page > 1 /\ hit # None /\ has_ingested_data(req.user_id, TRUE)) =>
                 LET e == hit[1]
                     q == resp'.query_id[1]
                     docs == heap[e.filtered_docs]
                     listed == req.show_all /\ docs # <<>>
                 IN  /\ resp'.status = 200
                     /\ resp'.from_cache
                     /\ resp'.calls = <<>>
                     /\ resp'.answer = Some(e.answer)
                     /\ resp'.mode = e.mode
                     /\ resp'.filters_applied = e.filters_applied
                     /\ resp'.statistics = e.statistics
                     /\ resp'.matching_transactions_count = Len(docs)
                     /\ resp'.transactions
                          = IF listed
                            THEN Some(FormattedWindow(docs, req.page, req.page_size))
                            ELSE None
                     /\ (resp'.pagination # None) <=> listed
                     /\ EntryValue(query_cache'[q], heap') = EntryValue(e, heap)
      ]_vars

(* C2 witness: a page-2 request was served from the cache with a window.   *)
C2_Witness ==
    /\ resp.op = "resolve"
    /\ resp.from_cache
    /\ resp.req.page > 1
    /\ resp.transactions # None
    /\ Len(resp.transactions[1]) >= 1
    /\ resp.calls = <<>>

(* C3, as stated: after any successful page-1 or uncached resolve, in      *)
(* every mode, the handler has run classification, then filtering or       *)
(* retrieval, then generation, then cache population, and the cache holds  *)
(* an entry under the request's fingerprint.                               *)
C3_EveryModeCaches ==
    (resp.op = "resolve" /\ resp.status = 200 /\ ~resp.from_cache) =>
       /\ resp.query_id[1] \in DOMAIN query_cache
       /\ resp.calls[1] = "classify"
       /\ resp.calls[Len(resp.calls)] = "store"

(* C4: a put or a delete on the context store leaves every cache entry in  *)
(* place with its answer, its matching subset and its timestamp, and so    *)
(* every page served from it.                                              *)
C4_SnapshotByValue ==
    [][((\E d \in Datasets(None) : Ingest(None, d, TRUE)) \/ Clear(None, TRUE)) =>
          \A k \in DOMAIN query_cache :
             /\ k \in DOMAIN query_cache'
             /\ EntryValue(query_cache'[k], heap') = EntryValue(query_cache[k], heap)
             /\ \A req \in ResolveRequests :
                   CachedResponse(req, k, query_cache'[k], heap')
                      = CachedResponse(req, k, query_cache[k], heap)
      ]_vars

(* C4 witness: after a re-ingestion the cache still holds the matching     *)
(* subset of the dataset that was replaced.                                *)
C4_Witness ==
    /\ resp.op = "ingest"
    /\ resp.status = 200
    /\ \E k \in DOMAIN query_cache :
          /\ heap[query_cache[k].filtered_docs] # <<>>
          /\ heap[query_cache[k].filtered_docs] # heap[legacy_store.transactions]
          /\ query_cache[k].timestamp <= now

---------------------------------------------------------------------------
(* SpecIso: two identities, each with its own dataset, asking the same     *)
(* question and paging through the answer.                                 *)

IsoUserIds == {None, Some(<<"a">>)}

IsoRequests ==
    {Request(u, <<"all">>, page, 2, TRUE) : u \in IsoUserIds, page \in 1..MaxPage}

InitIso ==
    /\ InitStores
    /\ DB_AVAILABLE = FALSE
    /\ fpIn = <<>>
    /\ fpOut = None

NextIso ==
    \/ \E u \in IsoUserIds : \E d \in Datasets(u) : Ingest(u, d, TRUE)
    \/ \E req \in IsoRequests : Resolve(req, Env("ok", FALSE))
    \/ Tick(CACHE_TTL_MINUTES + 1)

SpecIso == InitIso /\ [][NextIso]_vars

(* The identities whose transactions a response shows or speaks about.     *)
OwnersIn(r) ==
    {r.answer[1].about[i].owner : i \in DOMAIN r.answer[1].about}
    \cup (IF r.transactions = None THEN {}
          ELSE {r.transactions[1][i].api.owner : i \in DOMAIN r.transactions[1]})

(* C1, as stated: a pagination request (page > 1) served from the cache    *)
(* never returns an answer or matching subset cached from another          *)
(* identity's dataset.                                                     *)
C1_NoCrossIdentityPage ==
    (resp.op = "resolve" /\ resp.status = 200 /\ resp.from_cache
     /\ resp.req.page > 1)
       => OwnersIn(resp) \subseteq {storage_key(resp.req.user_id)}

---------------------------------------------------------------------------
(* SpecPage: listings of every small dataset, amounts repeated or not, in  *)
(* every page size, served by the fresh and by the cached path.            *)

PageAmounts == {50, 100}

PageDatasets ==
    UNION {{[i \in 1..n |-> Txn(<<"global">>, i, f[i])] : f \in [1..n -> PageAmounts]} :
              n \in 1..MaxDocs}

PageRequests ==
    {Request(None, <<"all">>, page, page_size, TRUE) :
        page \in 1..MaxDocs, page_size \in 1..2}

InitPage ==
    /\ InitStores
    /\ DB_AVAILABLE = FALSE
    /\ fpIn = <<>>
    /\ fpOut = None

NextPage ==
    \/ \E d \in PageDatasets : Ingest(None, d, TRUE)
    \/ \E req \in PageRequests : Resolve(req, Env("ok", FALSE))

SpecPage == InitPage /\ [][NextPage]_vars

(* C8: for a matching subset of N > 0 transactions and page size P, the    *)
(* listing carries total_pages = ceil(N/P); page ceil(N/P) holds N mod P   *)
(* transactions (P when P divides N) and every earlier page P; has_next is *)
(* false on the last page and true on every earlier one; has_prev is false *)
(* only on page 1 - in the listing of a SMART_FULL answer served by the    *)
(* fresh path and in one served by the cached path alike.                  *)
C8_PaginationMetadata ==
    (resp.op = "resolve" /\ resp.status = 200 /\ resp.req.show_all
     /\ resp.mode = "SMART_FULL" /\ resp.matching_transactions_count > 0) =>
       /\ resp.pagination # None
       /\ resp.transactions # None
       /\ LET pg == resp.pagination[1]
              N == resp.matching_transactions_count
              P == resp.req.page_size
              page == resp.req.page
              last == pg.total_pages
              shown == Len(resp.transactions[1])
          IN  /\ pg.total_items = N
              /\ (last - 1) * P < N
              /\ N <= last * P
              /\ page = last => shown = (IF N % P = 0 THEN P ELSE N % P)
              /\ page < last => shown = P
              /\ pg.has_next <=> page < last
              /\ pg.has_prev <=> page > 1

(* C8 witness: the cached path served a last page that is not full.        *)
C8_Witness ==
    /\ resp.op = "resolve"
    /\ resp.from_cache
    /\ resp.pagination # None
    /\ resp.req.page = resp.pagination[1].total_pages
    /\ resp.matching_transactions_count % resp.req.page_size # 0
    /\ Len(resp.transactions[1]) < resp.req.page_size
    /\ ~resp.pagination[1].has_next
    /\ resp.pagination[1].has_prev

(* The place of the i-th transaction of docs in the listing: after every   *)
(* transaction of greater amount and every earlier one of equal amount.    *)
Place(docs, i) ==
    1 + Cardinality({j \in DOMAIN docs : docs[j].amount > docs[i].amount})
      + Cardinality({j \in 1..(i - 1) : docs[j].amount = docs[i].amount})

(* The transactions whose places are lo + 1 .. hi, in the order of places. *)
PlacesWindow(docs, lo, hi) ==
    LET idx == {i \in DOMAIN docs : lo < Place(docs, i) /\ Place(docs, i) <= hi}
    IN  [k \in 1..Cardinality(idx) |->
            format_transaction_for_api(docs[CHOOSE i \in idx : Place(docs, i) = lo + k])]

RECURSIVE PagesUpTo(_, _, _)
PagesUpTo(docs, n, page_size) ==
    IF n = 0 THEN <<>>
    ELSE PagesUpTo(docs, n - 1, page_size)
         \o Paginate(docs, n, page_size, TRUE).transactions[1]

(* C9: the page p of a listing is the window [(p-1)P, pP) of the matching  *)
(* subset in descending order of amount, equal amounts in their original   *)
(* order; and the pages 1..ceil(N/P) of one cache entry, put end to end,   *)
(* are the whole subset in that order, each transaction once.              *)
C9_PageContent ==
    /\ (resp.op = "resolve" /\ resp.status = 200 /\ resp.transactions # None) =>
          LET docs == heap[query_cache[resp.query_id[1]].filtered_docs]
              P == resp.req.page_size
              page == resp.req.page
          IN  resp.transactions[1] = PlacesWindow(docs, (page - 1) * P, page * P)
    /\ \A k \in DOMAIN query_cache : \A P \in 1..2 :
          LET docs == heap[query_cache[k].filtered_docs]
              all == PagesUpTo(docs, total_pages(Len(docs), P), P)
          IN  docs # <<>> =>
                 /\ all = PlacesWindow(docs, 0, Len(docs))
                 /\ Len(all) = Len(docs)
                 /\ \A i \in DOMAIN docs :
                       Cardinality({j \in DOMAIN all :
                                       all[j] = format_transaction_for_api(docs[i])}) = 1

(* C9 witness: a page shows two transactions of equal amount from a        *)
(* subset that was not ingested in listing order.                          *)
C9_Witness ==
    /\ resp.op = "resolve"
    /\ resp.transactions # None
    /\ Len(resp.transactions[1]) = 2
    /\ resp.transactions[1][1].api.amount = resp.transactions[1][2].api.amount
    /\ resp.transactions[1][1].api.n < resp.transactions[1][2].api.n
    /\ LET docs == heap[query_cache[resp.query_id[1]].filtered_docs]
       IN  docs # sorted_docs(docs)

---------------------------------------------------------------------------
(* SpecStore: the context store with its durable tier - puts of a named    *)
(* identity and of the global one, the background write of each put at its *)
(* own pace, succeeding or failing, gets, existence checks, deletes and    *)
(* restarts of the process.                                                *)

StoreUserIds == {None, Some(<<"a">>)}

InitStore ==
    /\ InitStores
    /\ DB_AVAILABLE = TRUE
    /\ fpIn = <<>>
    /\ fpOut = None

NextStore ==
    \/ \E u \in StoreUserIds : \E d \in Datasets(u) : \E build_ok \in BOOLEAN :
          Ingest(u, d, build_ok)
    \/ \E i \in 1..MaxThreads, ok \in BOOLEAN : SaveQuery(i, ok)
    \/ \E i \in 1..MaxThreads, ok \in BOOLEAN : SaveCommit(i, ok)
    \/ \E u \in StoreUserIds, db_ok \in BOOLEAN : Clear(u, db_ok)
    \/ \E u \in StoreUserIds, db_ok \in BOOLEAN, build_ok \in BOOLEAN :
          Get(u, db_ok, build_ok)
    \/ \E u \in StoreUserIds, db_ok \in BOOLEAN : Exists(u, db_ok)
    \/ Restart
    \/ Tick(CACHE_TTL_MINUTES + 1)

SpecStore == InitStore /\ [][NextStore]_vars

(* C10: from the moment a put of (id, T, index) has returned, and through  *)
(* every step of the background writes, get(id) yields the list T and the  *)
(* index built from T, with the time of the put, whatever the database     *)
(* does.                                                                   *)
C10_PutSynchronous ==
    (resp.op = "ingest" /\ resp.status = 200) =>
       \A db_ok \in BOOLEAN, build_ok \in BOOLEAN :
          LET T == resp.req.context_data
              g == get_ingested_data(memory_cache, heap, resp.req.user_id,
                                     FreshObj, db_ok, build_ok)
              built == create_vector_store(T)
          IN  /\ g.hp[g.data.transactions] = T
              /\ g.data.vectorstore = built.vectorstore
              /\ g.data.langchain_docs = built.langchain_docs
              /\ g.data.last_updated = resp.timestamp
              /\ has_ingested_data(resp.req.user_id, db_ok)

(* C10 witness: a put replaced a dataset while the durable tier still held *)
(* the earlier one and the put's background write had not yet started.     *)
C10_Witness ==
    /\ resp.op = "ingest"
    /\ resp.status = 200
    /\ Truthy(resp.req.user_id)
    /\ storage_key(resp.req.user_id) \in DOMAIN db
    /\ db[storage_key(resp.req.user_id)].transactions # resp.req.context_data
    /\ \E i \in DOMAIN threads : threads[i].pc = "query"

(* The in-memory tier with its lists of transactions by value.             *)
MemValue(m, h) == [k \in DOMAIN m |-> DataValue(m[k], h)]

(* C11: a step of a put's background write - its query or its commit,      *)
(* succeeding or failing - changes neither the response the put gave nor   *)
(* the datasets in memory and starts no further write; the write is over   *)
(* after its one commit or its first failure; a failed step leaves the     *)
(* database as it was, a commit changes at most the row of its identity;   *)
(* and a put starts at most one write.                                     *)
C11_WriteFailureSilent ==
    [][/\ \A i \in 1..MaxThreads, ok \in BOOLEAN :
             (i \in DOMAIN threads /\ threads' # threads
              /\ (SaveQuery(i, ok) \/ SaveCommit(i, ok))) =>
                /\ resp' = resp
                /\ MemValue(memory_cache', heap') = MemValue(memory_cache, heap)
                /\ DataValue(legacy_store', heap') = DataValue(legacy_store, heap)
                /\ Len(threads') <= Len(threads)
                /\ ~ok => (db' = db /\ Len(threads') = Len(threads) - 1)
       /\ \A i \in 1..MaxThreads, ok \in BOOLEAN :
             (i \in DOMAIN threads /\ threads' # threads /\ SaveCommit(i, ok)) =>
                /\ Len(threads') = Len(threads) - 1
                /\ \/ db' = db
                   \/ /\ DOMAIN db' = DOMAIN db \cup {threads[i].key}
                      /\ db'[threads[i].key].transactions
                           = heap[threads[i].transactions]
                      /\ \A k \in DOMAIN db \ {threads[i].key} : db'[k] = db[k]
       /\ (resp'.op = "ingest" /\ Len(threads') > Len(threads)
           /\ \E u \in StoreUserIds : \E d \in Datasets(u) : \E b \in BOOLEAN :
                 Ingest(u, d, b)) => Len(threads') <= Len(threads) + 1
      ]_vars

(* C11 witness: a put answered 200, its write has ended without a row in   *)
(* the database, and the dataset is in memory.                             *)
C11_Witness ==
    /\ resp.op = "ingest"
    /\ resp.status = 200
    /\ Truthy(resp.req.user_id)
    /\ threads = <<>>
    /\ storage_key(resp.req.user_id) \notin DOMAIN db
    /\ storage_key(resp.req.user_id) \in DOMAIN memory_cache
    /\ heap[memory_cache[storage_key(resp.req.user_id)].transactions]
         = resp.req.context_data

(* C12: a get of a named identity that misses in memory while the database *)
(* holds its row and can be read queries the database, calls the index     *)
(* builder, keeps the reconstructed dataset in memory under the identity   *)
(* and returns it; the next get of the identity, and every get that finds  *)
(* the identity in memory, returns the dataset in memory without a query   *)
(* and without a call of the index builder, and leaves the memory as it is.*)
C12_ColdLoad ==
    [][\A u \in StoreUserIds, db_ok \in BOOLEAN, build_ok \in BOOLEAN :
          (resp'.op = "get" /\ resp'.req.user_id = u /\ resp'.db_ok = db_ok
           /\ resp'.build_ok = build_ok
           /\ Get(u, db_ok, build_ok)) =>
             LET key == storage_key(u) IN
             /\ (Truthy(u) /\ key \notin DOMAIN memory_cache
                 /\ key \in DOMAIN db /\ db_ok) =>
                   /\ resp'.calls = <<"query", "build">>
                   /\ resp'.data.transactions = db[key].transactions
                   /\ resp'.data.vectorstore
                        = (IF build_ok
                           THEN create_vector_store(db[key].transactions).vectorstore
                           ELSE None)
                   /\ key \in DOMAIN memory_cache'
                   /\ DataValue(memory_cache'[key], heap') = resp'.data
                   /\ \A d \in BOOLEAN, b \in BOOLEAN :
                         LET again == get_ingested_data(memory_cache', heap', u,
                                                        MinOf(ObjIds \ Live'), d, b)
                         IN  /\ again.calls = <<>>
                             /\ DataValue(again.data, again.hp) = resp'.data
                             /\ again.mc = memory_cache'
             /\ (Truthy(u) /\ key \in DOMAIN memory_cache) =>
                   /\ resp'.calls = <<>>
                   /\ resp'.data = DataValue(memory_cache[key], heap)
                   /\ MemValue(memory_cache', heap') = MemValue(memory_cache, heap)
      ]_vars

(* C12 witness: a get has loaded a dataset from the database and it is in  *)
(* memory.                                                                 *)
C12_Witness ==
    /\ resp.op = "get"
    /\ resp.calls = <<"query", "build">>
    /\ resp.data.transactions # <<>>
    /\ resp.data.vectorstore # None
    /\ storage_key(resp.req.user_id) \in DOMAIN memory_cache
    /\ DataValue(memory_cache[storage_key(resp.req.user_id)], heap) = resp.data

(* The dataset returned when there is nothing to return.                   *)
EmptyDataset ==
    [transactions |-> <<>>, vectorstore |-> None, langchain_docs |-> <<>>,
     last_updated |-> None]

(* What get(id) returns when the identity is not in memory and the         *)
(* database can be read.                                                   *)
ColdGet(user_id, build_ok) ==
    LET g == CHOOSE r \in {get_ingested_data(<<>>, heap, user_id, FreshObj,
                                              TRUE, build_ok)} : TRUE
    IN  DataValue(g.data, g.hp)

(* C13, as stated: after put(id, T), a get(id) with the in-memory tier     *)
(* cleared in between returns T, with an index when the builder succeeds.  *)
C13_RoundTrip ==
    (resp.op = "ingest" /\ resp.status = 200 /\ Truthy(resp.req.user_id)) =>
       /\ ColdGet(resp.req.user_id, TRUE).transactions = resp.req.context_data
       /\ ColdGet(resp.req.user_id, TRUE).vectorstore # None

(* C13: a put of a named identity with the database available hands its   *)
(* list T to one background write; from the moment that write commits, and *)
(* until another write or a delete for the identity reaches the database,  *)
(* a get(id) that finds the memory cleared returns T, with an index when   *)
(* the index builder succeeds and without one when it fails: what such a   *)
(* get returns is at every moment the list of the identity's row, or the   *)
(* empty dataset when there is no row.                                     *)
C13_RoundTripAfterCommit ==
    /\ [][/\ \A u \in StoreUserIds : \A d \in Datasets(u) :
             (resp'.op = "ingest" /\ Truthy(u) /\ resp'.req.user_id = u
              /\ resp'.req.context_data = d /\ Ingest(u, d, TRUE)) =>
                /\ Len(threads') = Len(threads) + 1
                /\ threads'[Len(threads')].key = storage_key(u)
                /\ threads'[Len(threads')].pc = "query"
                /\ heap'[threads'[Len(threads')].transactions] = d
       /\ \A i \in 1..MaxThreads :
             (i \in DOMAIN threads /\ threads' # threads /\ SaveCommit(i, TRUE)
              /\ (threads[i].found <=> threads[i].key \in DOMAIN db)) =>
                \A id \in StoreUserIds :
                   (Truthy(id) /\ storage_key(id) = threads[i].key) =>
                      LET T == heap[threads[i].transactions] IN
                      /\ ColdGet(id, TRUE)'.transactions = T
                      /\ ColdGet(id, TRUE)'.vectorstore # None
                      /\ ColdGet(id, FALSE)'.transactions = T
                      /\ ColdGet(id, FALSE)'.vectorstore = None
      ]_vars
    /\ [](\A u \in StoreUserIds, b \in BOOLEAN :
             Truthy(u) =>
                IF storage_key(u) \in DOMAIN db
                THEN /\ ColdGet(u, b).transactions = db[storage_key(u)].transactions
                     /\ ColdGet(u, b).vectorstore # None <=> b
                ELSE ColdGet(u, b) = EmptyDataset)

(* C13 witness: the write of the last put has committed and a get with the *)
(* memory cleared returns the list that was put.                           *)
C13_Witness ==
    /\ resp.op = "ingest"
    /\ resp.status = 200
    /\ Truthy(resp.req.user_id)
    /\ threads = <<>>
    /\ storage_key(resp.req.user_id) \in DOMAIN db
    /\ ColdGet(resp.req.user_id, TRUE).transactions = resp.req.context_data
    /\ ColdGet(resp.req.user_id, TRUE).vectorstore # None

(* C14: when the index rebuild fails during a load from the database, the  *)
(* get returns the transactions of the row with no index and no documents, *)
(* dated as the row, and keeps that dataset in memory.                     *)
C14_LoadSurvivesRebuildFailure ==
    [][\A u \in StoreUserIds :
          (resp'.op = "get" /\ Truthy(u)
           /\ storage_key(u) \notin DOMAIN memory_cache
           /\ storage_key(u) \in DOMAIN db
           /\ Get(u, TRUE, FALSE)) =>
             LET row == db[storage_key(u)] IN
             /\ resp'.data = [transactions |-> row.transactions,
                              vectorstore |-> None, langchain_docs |-> <<>>,
                              last_updated |-> Some(row.last_updated)]
             /\ storage_key(u) \in DOMAIN memory_cache'
             /\ DataValue(memory_cache'[storage_key(u)], heap') = resp'.data
      ]_vars

(* C14 witness: a get loaded a row, the rebuild failed, and the            *)
(* transactions came back without an index.                                *)
C14_Witness ==
    /\ resp.op = "get"
    /\ ~resp.build_ok
    /\ resp.calls = <<"query", "build">>
    /\ resp.data.transactions # <<>>
    /\ resp.data.vectorstore = None

(* C15: a get of a named identity that is not in memory, when the database *)
(* has no row for it or cannot be read, and a get of the global identity   *)
(* when nothing was put since the start or the last delete, returns the    *)
(* empty dataset without calling the index builder and leaves every        *)
(* dataset in memory as it was, the identity still without an entry.       *)
C15_MissReturnsEmpty ==
    [][\A u \in StoreUserIds, db_ok \in BOOLEAN, build_ok \in BOOLEAN :
          (resp'.op = "get" /\ resp'.req.user_id = u /\ resp'.db_ok = db_ok
           /\ resp'.build_ok = build_ok
           /\ Get(u, db_ok, build_ok)
           /\ \/ /\ Truthy(u)
                 /\ storage_key(u) \notin DOMAIN memory_cache
                 /\ (storage_key(u) \notin DOMAIN db \/ ~db_ok)
              \/ /\ ~Truthy(u)
                 /\ DataValue(legacy_store, heap) = EmptyDataset) =>
             /\ resp'.data = EmptyDataset
             /\ "build" \notin Range(resp'.calls)
             /\ storage_key(u) \notin DOMAIN memory_cache'
             /\ MemValue(memory_cache', heap') = MemValue(memory_cache, heap)
             /\ DataValue(legacy_store', heap') = DataValue(legacy_store, heap)
             /\ db' = db
      ]_vars

(* C15 witness: the database held a row for the identity but could not be  *)
(* read, and the get returned the empty dataset.                           *)
C15_Witness ==
    /\ resp.op = "get"
    /\ ~resp.db_ok
    /\ Truthy(resp.req.user_id)
    /\ storage_key(resp.req.user_id) \in DOMAIN db
    /\ storage_key(resp.req.user_id) \notin DOMAIN memory_cache
    /\ resp.data = EmptyDataset

(* Whether the in-memory tier holds a dataset with transactions for the    *)
(* identity: its entry for a named identity, the legacy store for the      *)
(* global one.                                                             *)
InMemoryNonEmpty(user_id) ==
    IF Truthy(user_id)
    THEN /\ storage_key(user_id) \in DOMAIN memory_cache
         /\ heap[memory_cache[storage_key(user_id)].transactions] # <<>>
    ELSE heap[legacy_store.transactions] # <<>>

InMemoryEntry(user_id) ==
    ~Truthy(user_id) \/ storage_key(user_id) \in DOMAIN memory_cache

(* C16, as stated: exists is true iff the in-memory tier holds a non-empty *)
(* dataset for the identity or, the in-memory tier having no entry for it, *)
(* the durable tier has a record for it.                                   *)
C16_ExistsIff ==
    [][\A u \in StoreUserIds, db_ok \in BOOLEAN :
          (resp'.op = "exists" /\ Exists(u, db_ok)) =>
             (resp'.result <=>
                 \/ InMemoryNonEmpty(u)
                 \/ (~InMemoryEntry(u) /\ storage_key(u) \in DOMAIN db))
      ]_vars

(* C16: exists is true iff the in-memory tier holds a non-empty dataset    *)
(* for the identity or, the in-memory tier having no entry for it, the     *)
(* database is available, the read of it succeeds and it has a row for the *)
(* identity - a failing read answers false; exists modifies neither tier   *)
(* nor the cache and starts no write.                                      *)
C16_ExistsIffReadable ==
    [][\A u \in StoreUserIds, db_ok \in BOOLEAN :
          (resp'.op = "exists" /\ Exists(u, db_ok)) =>
             /\ resp'.result <=>
                   \/ InMemoryNonEmpty(u)
                   \/ /\ ~InMemoryEntry(u)
                      /\ DB_AVAILABLE /\ db_ok
                      /\ storage_key(u) \in DOMAIN db
             /\ UNCHANGED <<memory_cache, legacy_store, heap, db, threads,
                            query_cache>>
      ]_vars

(* C16 witness: exists answered true for an identity that is not in memory *)
(* on the strength of its row in the database.                             *)
C16_Witness ==
    /\ resp.op = "exists"
    /\ resp.result
    /\ Truthy(resp.req.user_id)
    /\ storage_key(resp.req.user_id) \notin DOMAIN memory_cache
    /\ storage_key(resp.req.user_id) \in DOMAIN db

(* C17: when a delete of a named identity returns, the identity has no     *)
(* entry in memory, whether the database delete succeeded or failed; its   *)
(* row is gone if the database delete succeeded and the database is as it  *)
(* was if it failed; a delete of the global identity resets the legacy     *)
(* store; the datasets of the other identities stay as they were.          *)
C17_DeleteBothTiers ==
    [][\A u \in StoreUserIds, db_ok \in BOOLEAN :
          (resp'.op = "clear" /\ resp'.req.user_id = u /\ resp'.db_ok = db_ok
           /\ Clear(u, db_ok)) =>
             LET key == storage_key(u) IN
             /\ resp'.req.user_id = u
             /\ Truthy(u) =>
                   /\ key \notin DOMAIN memory_cache'
                   /\ db_ok => (key \notin DOMAIN db'
                                /\ \A k \in DOMAIN db \ {key} :
                                      k \in DOMAIN db' /\ db'[k] = db[k])
                   /\ ~db_ok => db' = db
                   /\ DataValue(legacy_store', heap') = DataValue(legacy_store, heap)
             /\ ~Truthy(u) =>
                   /\ DataValue(legacy_store', heap') = EmptyDataset
                   /\ db' = db
             /\ \A k \in DOMAIN memory_cache \ {key} :
                   /\ k \in DOMAIN memory_cache'
                   /\ DataValue(memory_cache'[k], heap')
                        = DataValue(memory_cache[k], heap)
      ]_vars

(* C17 witness: the database delete failed, the row is still there, and    *)
(* the identity is gone from memory.                                       *)
C17_Witness ==
    /\ resp.op = "clear"
    /\ ~resp.db_ok
    /\ Truthy(resp.req.user_id)
    /\ storage_key(resp.req.user_id) \in DOMAIN db
    /\ storage_key(resp.req.user_id) \notin DOMAIN memory_cache

(* C18: a get never re-installs a dataset after a delete for that identity *)
(* completed: when the last operation on the store was a delete of a named *)
(* identity whose database delete succeeded, and no put followed it, a get *)
(* of that identity leaves the identity without an entry in memory and     *)
(* returns the empty dataset.  (The store takes no lock; a get runs to its *)
(* end on the event loop, and the background write of an earlier put is    *)
(* the only step that can fall between a delete and a get.)                *)
C18_NoReinstallAfterDelete ==
    [][\A u \in StoreUserIds, db_ok \in BOOLEAN, build_ok \in BOOLEAN :
          (/\ Truthy(u)
           /\ resp.op = "clear"
           /\ resp.db_ok
           /\ resp.req.user_id = u
           /\ resp'.op = "get"
           /\ Get(u, db_ok, build_ok))
          => /\ storage_key(u) \notin DOMAIN memory_cache'
             /\ resp'.data = EmptyDataset
      ]_vars

---------------------------------------------------------------------------
(* SpecFlows: the three resolution flows - /prompt over the ingested       *)
(* dataset, /query over the dataset in the request, /query/stream - with   *)
(* the caller's use_full_data flag unset, true and false.                  *)

FlowPrompts == {<<"total">>, <<"all">>, <<"x">>}

Flags == {None, Some(TRUE), Some(FALSE)}

FlowDocs ==
    <<Txn(<<"global">>, 1, 100), Txn(<<"global">>, 2, 500), Txn(<<"global">>, 3, 50)>>

PromptRequests ==
    {[Request(None, p, page, 2, TRUE) EXCEPT !.use_full_data = flag] :
        p \in FlowPrompts, flag \in Flags, page \in {1, 2}}

StreamRequests ==
    {[Request(None, p, 1, 2, FALSE) EXCEPT !.use_full_data = flag] :
        p \in FlowPrompts, flag \in Flags}

ContextRequests ==
    {[prompt |-> p, context_data |-> FlowDocs, use_full_data |-> flag,
      show_all |-> TRUE, page |-> 1, page_size |-> 2] :
        p \in FlowPrompts, flag \in Flags}

(* The collaborators succeed: a mode is resolved and a branch is taken.    *)
FlowEnv == Env("ok", FALSE)

InitFlows ==
    /\ InitStores
    /\ DB_AVAILABLE = FALSE
    /\ fpIn = <<>>
    /\ fpOut = None

StreamAdvance ==
    \/ StreamStart(TRUE, TRUE)
    \/ \E ev \in StreamEvents : StreamStep(ev)
    \/ \E ok \in BOOLEAN : StreamStats(ok)
    \/ StreamDone

NextFlows ==
    \/ Ingest(None, FlowDocs, TRUE)
    \/ \E req \in PromptRequests : Resolve(req, FlowEnv)
    \/ \E req \in ContextRequests : Query(req, FlowEnv)
    \/ \E req \in StreamRequests : StreamOpen(req, TRUE)
    \/ StreamAdvance

SpecFlows == InitFlows /\ [][NextFlows]_vars

(* The mode the claim asks for: the flag's when it is set, the             *)
(* classifier's otherwise.                                                 *)
ExpectedMode(req, documents) ==
    IF req.use_full_data = Some(TRUE) THEN "SMART_FULL"
    ELSE IF req.use_full_data = Some(FALSE) THEN "VECTOR_SEARCH"
    ELSE detect_query_mode(req.prompt, documents)

(* C19: whenever a flow resolves a mode - /prompt on its page-1 / uncached *)
(* path, /query, and the stream's metadata frame - the mode is SMART_FULL  *)
(* when use_full_data is true, VECTOR_SEARCH when it is false, and the     *)
(* classifier's result when it is unset; with the flag set the statistical *)
(* branch is not taken: no statistics in the response, no statistical      *)
(* answer, no statistics frame.  (A page served from the cache resolves no *)
(* mode: it carries the mode stored with the entry.)                       *)
C19_ModeOverride ==
    /\ (resp.op \in {"resolve", "query"} /\ resp.status = 200 /\ ~resp.from_cache) =>
          /\ resp.mode = ExpectedMode(resp.req,
                            IF resp.op = "query" THEN resp.req.context_data
                            ELSE heap[legacy_store.transactions])
          /\ resp.req.use_full_data # None =>
                /\ resp.statistics = None
                /\ resp.answer[1].kind # "statistical"
    /\ (stream # None /\ stream[1].frames # <<>>) =>
          /\ stream[1].frames[1].mode
                = ExpectedMode(stream[1].req, stream[1].documents)
          /\ stream[1].req.use_full_data # None =>
                /\ stream[1].branch # "STATISTICAL"
                /\ \A i \in DOMAIN stream[1].frames :
                      stream[1].frames[i].type # "statistics"

(* C19 witness: for a prompt the classifier calls statistical, a stream    *)
(* with the flag true has run to its done frame and a /prompt request with *)
(* the flag false was answered by the uncached path.                       *)
C19_Witness ==
    /\ stream # None
    /\ stream[1].pc = "closed"
    /\ stream[1].req.prompt = <<"total">>
    /\ stream[1].req.use_full_data = Some(TRUE)
    /\ stream[1].frames[Len(stream[1].frames)].type = "done"
    /\ resp.op = "resolve"
    /\ resp.status = 200
    /\ ~resp.from_cache
    /\ resp.req.prompt = <<"total">>
    /\ resp.req.use_full_data = Some(FALSE)

---------------------------------------------------------------------------
(* SpecStream: one /query/stream generator at a time, over the global      *)
(* dataset, with ingests and a delete between its frames.  The event loop  *)
(* resumes a generator whose client is reading, and a generation stream    *)
(* ends after at most MaxChunks chunks: the generator's steps are weakly   *)
(* fair.                                                                   *)

FrameRequests ==
    {[Request(None, p, 1, 2, FALSE) EXCEPT !.use_full_data = flag] :
        p \in Prompts, flag \in Flags}

NextStream ==
    \/ \E d \in Datasets(None) : Ingest(None, d, TRUE)
    \/ Clear(None, TRUE)
    \/ \E req \in FrameRequests : StreamOpen(req, TRUE)
    \/ StreamAdvance

SpecStream == InitFlows /\ [][NextStream]_vars /\ WF_vars(StreamAdvance)

AllChunks(ts, a, b) == \A i \in a..b : ts[i] = "chunk"

(* metadata, chunk*, statistics | metadata_final, done                     *)
EndsDone(ts) ==
    LET n == Len(ts) IN
    /\ n >= 3
    /\ ts[1] = "metadata"
    /\ AllChunks(ts, 2, n - 2)
    /\ ts[n - 1] \in {"statistics", "metadata_final"}
    /\ ts[n] = "done"

(* What was sent before the failure, then the one error frame.             *)
EndsError(ts) ==
    LET n == Len(ts) IN
    /\ n >= 1
    /\ ts[n] = "error"
    /\ n >= 2 => (ts[1] = "metadata" /\ AllChunks(ts, 2, n - 1))

(* A stream under way: a prefix of the order, neither done nor error yet.  *)
UnderWay(ts) ==
    LET n == Len(ts) IN
    \/ n = 0
    \/ /\ ts[1] = "metadata"
       /\ \/ AllChunks(ts, 2, n)
          \/ n >= 2 /\ AllChunks(ts, 2, n - 1)
                    /\ ts[n] \in {"statistics", "metadata_final"}

StreamOpenNow == IF stream = None THEN FALSE ELSE stream[1].pc # "closed"

StreamClosedNow == IF stream = None THEN FALSE ELSE stream[1].pc = "closed"

C21_FinalFrameComplete ==
    (StreamClosedNow /\ stream[1].frames[Len(stream[1].frames)].type = "done") =>
       LET final == stream[1].frames[Len(stream[1].frames) - 1] IN
       /\ final.type \in {"statistics", "metadata_final"}
       /\ "matching_transactions_count" \in DOMAIN final
       /\ "filters_applied" \in DOMAIN final

---------------------------------------------------------------------------
(* SpecCancel: streams that run to their end, fail, or lose their caller,  *)
(* next to /prompt requests that fill the query cache and a clock that     *)
(* lets its entries expire.                                                *)

CancelPrompts == {<<"total">>, <<"all">>}

CancelRequests == {Request(None, p, 1, 2, TRUE) : p \in CancelPrompts}

NextCancel ==
    \/ Ingest(None, FlowDocs, TRUE)
    \/ \E req \in CancelRequests : Resolve(req, FlowEnv)
    \/ \E req \in CancelRequests : StreamOpen(req, TRUE)
    \/ StreamAdvance
    \/ StreamCancel
    \/ Tick(CACHE_TTL_MINUTES + 1)

SpecCancel == InitFlows /\ [][NextCancel]_vars

(* The query cache with the list of every entry by value.                  *)
QueryCacheValue(qc, h) == [k \in DOMAIN qc |-> EntryValue(qc[k], h)]

(* C22: no step of a stream - the handler's, a resumption of the           *)
(* generator up to a frame, done or error, or the caller's disconnect -    *)
(* changes the query cache: no entry added, removed or rewritten; and once *)
(* the caller has disconnected the generator is not resumed: it requests   *)
(* no further fragment and sends no further frame.                         *)
C22_StreamLeavesCache ==
    [][/\ (stream' # stream \/ (resp' # resp /\ resp'.op = "stream")) =>
             QueryCacheValue(query_cache', heap') = QueryCacheValue(query_cache, heap)
       /\ (IF stream = None THEN FALSE ELSE stream[1].cancelled) =>
             \/ stream' = stream
             \/ stream'[1].pc = "start" /\ stream'[1].frames = <<>>
      ]_vars

(* C22 witness: the caller left after the first chunk, with an entry in    *)
(* the query cache.                                                        *)
C22_Witness ==
    /\ stream # None
    /\ stream[1].cancelled
    /\ Chunks(stream[1].frames) = 1
    /\ query_cache # <<>>

---------------------------------------------------------------------------
(* SpecConfig: the handlers called with any of the three engine references *)
(* unset.  The module is imported with all three None (transactions.py     *)
(* 31-33); set_models sets them.  One named identity, a database, a        *)
(* restart that empties the memory and a clock that lets cache entries     *)
(* expire: a handler that went past its guard would load, sweep or store.  *)

ConfigUser == Some(<<"a">>)

ConfigDocs == <<Txn(<<"a">>, 1, 100), Txn(<<"a">>, 2, 500)>>

ConfigRequests == {Request(ConfigUser, <<"total">>, page, 2, TRUE) : page \in {1, 2}}

InitConfig ==
    /\ now = 0
    /\ query_cache = <<>>
    /\ memory_cache = <<>>
    /\ legacy_store = EmptyData(1)
    /\ heap = [o \in ObjIds |-> <<>>]
    /\ db = <<>>
    /\ threads = <<>>
    /\ models = [embeddings_model |-> FALSE, llm |-> FALSE, llm_streaming |-> FALSE]
    /\ resp = [op |-> "none"]
    /\ stream = None
    /\ DB_AVAILABLE = TRUE
    /\ fpIn = <<>>
    /\ fpOut = None

NextConfig ==
    \/ \E e \in BOOLEAN, l \in BOOLEAN, st \in BOOLEAN : SetModels(e, l, st)
    \/ Ingest(ConfigUser, ConfigDocs, TRUE)
    \/ SaveQuery(1, TRUE)
    \/ SaveCommit(1, TRUE)
    \/ Restart
    \/ \E req \in ConfigRequests : Resolve(req, FlowEnv)
    \/ \E req \in ConfigRequests : StreamOpen(req, TRUE)
    \/ StreamAdvance
    \/ Tick(CACHE_TTL_MINUTES + 1)

SpecConfig == InitConfig /\ [][NextConfig]_vars

(* Nothing of the dataset store, the query cache or the streams changes.   *)
StoresUntouched ==
    UNCHANGED <<query_cache, memory_cache, legacy_store, heap, db, threads, stream>>

(* C23: /prompt and /ingest called without the embedding model or without  *)
(* the generation engine, and /query/stream called without the embedding   *)
(* model or without the streaming engine, answer 503 and leave the dataset *)
(* store and the query cache as they were: nothing is loaded, swept,       *)
(* stored or built, no write is started and no stream is opened.           *)
C23_ConfigurationErrors ==
    [][/\ \A req \in ConfigRequests :
             (~(models.embeddings_model /\ models.llm)
              /\ resp'.op = "resolve" /\ resp'.req = req /\ Resolve(req, FlowEnv)) =>
                /\ resp'.status = 503
                /\ resp'.calls = <<>>
                /\ resp'.answer = None
                /\ StoresUntouched
       /\ (~(models.embeddings_model /\ models.llm)
           /\ resp'.op = "ingest" /\ Ingest(ConfigUser, ConfigDocs, TRUE)) =>
             /\ resp'.status = 503
             /\ StoresUntouched
       /\ \A req \in ConfigRequests :
             (~(models.embeddings_model /\ models.llm_streaming)
              /\ resp'.op = "stream" /\ resp'.req = req /\ StreamOpen(req, TRUE)) =>
                /\ resp'.status = 503
                /\ StoresUntouched
      ]_vars

(* C23 witness: the generation engine alone is unset; a /prompt request    *)
(* was refused while the identity's dataset sits in memory and an expired  *)
(* entry sits in the query cache.                                          *)
C23_Witness ==
    /\ resp.op = "resolve"
    /\ resp.status = 503
    /\ models.embeddings_model /\ models.llm_streaming
    /\ storage_key(ConfigUser) \in DOMAIN memory_cache
    /\ \E k \in DOMAIN query_cache : Expired(query_cache[k], now)

---------------------------------------------------------------------------
(* SpecNoData: /prompt and /query/stream for a named identity whose        *)
(* dataset comes and goes - put, written to the database, deleted - and    *)
(* whose database read may fail, with a clock that lets cache entries      *)
(* expire.                                                                 *)

NoDataRequests == {Request(ConfigUser, <<"total">>, page, 2, TRUE) : page \in {1, 2}}

NoDataEnvs == {FlowEnv, [FlowEnv EXCEPT !.db_ok = FALSE]}

InitNoData ==
    /\ InitStores
    /\ DB_AVAILABLE = TRUE
    /\ fpIn = <<>>
    /\ fpOut = None

NextNoData ==
    \/ Ingest(ConfigUser, ConfigDocs, TRUE)
    \/ SaveQuery(1, TRUE)
    \/ SaveCommit(1, TRUE)
    \/ \E db_ok \in BOOLEAN : Clear(ConfigUser, db_ok)
    \/ \E req \in NoDataRequests, env \in NoDataEnvs : Resolve(req, env)
    \/ \E req \in NoDataRequests, db_ok \in BOOLEAN : StreamOpen(req, db_ok)
    \/ StreamAdvance
    \/ Tick(CACHE_TTL_MINUTES + 1)

SpecNoData == InitNoData /\ [][NextNoData]_vars

(* What exists(id) answers: a non-empty dataset in memory, or no entry in  *)
(* memory and a row that the database lets the handler read.               *)
ExistsNow(user_id, db_ok) ==
    \/ InMemoryNonEmpty(user_id)
    \/ /\ ~InMemoryEntry(user_id)
       /\ DB_AVAILABLE /\ db_ok
       /\ storage_key(user_id) \in DOMAIN db

(* C24: a /prompt or /query/stream request for an identity for which       *)
(* exists is false is answered 400: no collaborator is called and no       *)
(* answer made, no stream is opened and no frame sent, and the query cache *)
(* and the datasets in memory stay as they were.                           *)
C24_NoDataErrors ==
    [][/\ \A req \in NoDataRequests, env \in NoDataEnvs :
             (~ExistsNow(req.user_id, env.db_ok)
              /\ resp'.op = "resolve" /\ resp'.req = req /\ Resolve(req, env)) =>
                /\ resp'.status = 400
                /\ resp'.calls = <<>>
                /\ resp'.answer = None
                /\ UNCHANGED <<query_cache, memory_cache, legacy_store, heap, stream>>
       /\ \A req \in NoDataRequests, db_ok \in BOOLEAN :
             (~ExistsNow(req.user_id, db_ok)
              /\ resp'.op = "stream" /\ resp'.req = req /\ StreamOpen(req, db_ok)) =>
                /\ resp'.status = 400
                /\ UNCHANGED <<query_cache, memory_cache, legacy_store, heap, stream>>
      ]_vars

(* C24 witness: a /prompt request was refused for an identity that was     *)
(* deleted, with the expired entry of its earlier request still in the     *)
(* query cache.                                                            *)
C24_Witness ==
    /\ resp.op = "resolve"
    /\ resp.status = 400
    /\ storage_key(resp.req.user_id) \notin DOMAIN memory_cache
    /\ storage_key(resp.req.user_id) \notin DOMAIN db
    /\ \E k \in DOMAIN query_cache : Expired(query_cache[k], now)

---------------------------------------------------------------------------
(* SpecGen: the two answer generators as functions of the question, the    *)
(* matching transactions and what the generation engine does.              *)

GenQuestions == SeqsUpTo({"x", "kya", "kitne_hi"}, MaxPromptLen)

GenDocs == {<<>>} \cup Datasets(None)

NextGen ==
    \/ \E q \in GenQuestions, d \in GenDocs, llm \in LlmOutcomes : GenCall(q, d, llm)
    \/ \E q \in GenQuestions, d \in GenDocs, llm \in LlmOutcomes, k \in 0..MaxChunks :
          GenStreamCall(q, d, llm, k)

SpecGen == InitFlows /\ [][NextGen]_vars

(* C25: when the generation engine throws, the answer generator does not   *)
(* return an answer: the call raises, so that the synchronous resolve      *)
(* fails without an answer to return or to cache and the stream ends with  *)
(* its error frame.                                                        *)
C25_GenerationErrorsSurface ==
    (resp.op \in {"generate", "generate_stream"} /\ resp.llm = "throws"
     /\ resp.result.llm_called) =>
       resp.result.outcome = "raises"

---------------------------------------------------------------------------
(* SpecOwners: the context store used by two named identities and the      *)
(* reserved global one: their puts, the background writes, gets, existence *)
(* checks, deletes, restarts of the process and the clock.                 *)

OwnerUserIds == {None, Some(<<"a">>), Some(<<"b">>)}

(* One list of transactions for each identity, its own.                    *)
OwnerDocs(user_id) == <<Txn(storage_key(user_id), 1, 100), Txn(storage_key(user_id), 2, 500)>>

NextOwners ==
    \/ \E u \in OwnerUserIds : Ingest(u, OwnerDocs(u), TRUE)
    \/ \E ok \in BOOLEAN : SaveQuery(1, ok)
    \/ \E ok \in BOOLEAN : SaveCommit(1, ok)
    \/ \E u \in OwnerUserIds, db_ok \in BOOLEAN : Clear(u, db_ok)
    \/ \E u \in OwnerUserIds : Get(u, TRUE, TRUE)
    \/ \E u \in OwnerUserIds : Exists(u, TRUE)
    \/ Restart
    \/ Tick(CACHE_TTL_MINUTES + 1)

SpecOwners == InitStore /\ [][NextOwners]_vars

(* The datasets of both tiers other than those under the keys in own are   *)
(* the same, by value, before and after the step.                          *)
OthersUntouched(own) ==
    /\ DOMAIN memory_cache' \ own = DOMAIN memory_cache \ own
    /\ \A k \in DOMAIN memory_cache \ own :
          DataValue(memory_cache'[k], heap') = DataValue(memory_cache[k], heap)
    /\ DOMAIN db' \ own = DOMAIN db \ own
    /\ \A k \in DOMAIN db \ own : db'[k] = db[k]

LegacyUntouched == DataValue(legacy_store', heap') = DataValue(legacy_store, heap)

(* Every transaction of the list was ingested by the identity of key k.    *)
OwnedBy(docs, k) == \A j \in DOMAIN docs : docs[j].owner = k

(* C26: a put, get, existence check or delete of a named identity, and     *)
(* each step of the background write of its put, leaves the datasets of    *)
(* every other identity in memory and in the database, and the legacy      *)
(* store of the global identity, as they were; the same operations of the  *)
(* global identity leave memory and the database as they were.  While the  *)
(* process runs, an entry leaves memory only by the delete of its own      *)
(* identity.  Every transaction that memory, the database or a get holds   *)
(* for an identity was ingested by a put of that identity, and a get       *)
(* returns the entry memory holds for it after the call, or the empty      *)
(* dataset.                                                                *)
C26_IsolationAndLifetime ==
    /\ [][/\ \A u \in OwnerUserIds :
                (resp'.op \in {"ingest", "get", "exists", "clear"}
                 /\ resp'.req.user_id = u
                 /\ \/ Ingest(u, OwnerDocs(u), TRUE)
                    \/ Get(u, TRUE, TRUE)
                    \/ Exists(u, TRUE)
                    \/ \E db_ok \in BOOLEAN : Clear(u, db_ok))
                => IF Truthy(u)
                   THEN OthersUntouched({u[1]}) /\ LegacyUntouched
                   ELSE OthersUntouched({})
          /\ \A ok \in BOOLEAN :
                (threads # <<>> /\ (SaveQuery(1, ok) \/ SaveCommit(1, ok)))
                => OthersUntouched({threads[1].key}) /\ LegacyUntouched
                   /\ MemValue(memory_cache', heap') = MemValue(memory_cache, heap)
          /\ \A k \in DOMAIN memory_cache :
                k \notin DOMAIN memory_cache'
                => \/ resp'.op = "restart"
                   \/ /\ resp'.op = "clear"
                      /\ resp'.req.user_id = Some(k)
                      /\ Clear(Some(k), resp'.db_ok)
          /\ \A u \in OwnerUserIds :
                (resp'.op = "get" /\ resp'.req.user_id = u
                 /\ Get(u, TRUE, TRUE))
                => IF ~Truthy(u)
                   THEN resp'.data = DataValue(legacy_store', heap')
                   ELSE IF u[1] \in DOMAIN memory_cache'
                   THEN resp'.data = DataValue(memory_cache'[u[1]], heap')
                   ELSE resp'.data = EmptyDataset
       ]_vars
    /\ [](/\ \A k \in DOMAIN memory_cache :
                OwnedBy(heap[memory_cache[k].transactions], k)
          /\ \A k \in DOMAIN db : OwnedBy(db[k].transactions, k)
          /\ OwnedBy(heap[legacy_store.transactions], <<"global">>)
          /\ resp.op = "get" =>
                OwnedBy(resp.data.transactions,
                        IF Truthy(resp.req.user_id) THEN resp.req.user_id[1]
                        ELSE <<"global">>))

(* C26 witness: a put of identity b has just returned while identity a has *)
(* a dataset in memory and a row in the database, the global identity has  *)
(* a dataset, and the write of b's put is still to come.                   *)
C26_Witness ==
    /\ resp.op = "ingest"
    /\ resp.status = 200
    /\ resp.req.user_id = Some(<<"b">>)
    /\ <<"a">> \in DOMAIN memory_cache
    /\ <<"a">> \in DOMAIN db
    /\ <<"b">> \in DOMAIN memory_cache
    /\ <<"b">> \notin DOMAIN db
    /\ heap[legacy_store.transactions] # <<>>
    /\ threads # <<>>

---------------------------------------------------------------------------
(* C27: in every reachable state every row of the database holds the list  *)
(* of transactions, the time of its write and an empty index field,        *)
(* whether the background write created the row or updated it; and each    *)
(* commit of a background write leaves its row so.                         *)
C27_IndexNeverPersisted ==
    /\ [](\A k \in DOMAIN db :
             /\ DOMAIN db[k] = {"transactions", "vectorstore_data", "last_updated"}
             /\ db[k].vectorstore_data = <<>>)
    /\ [][\A ok \in BOOLEAN :
             (threads # <<>> /\ threads' = <<>> /\ SaveCommit(1, ok))
             => \A found \in BOOLEAN :
                   (threads[1].found = found /\ threads[1].key \in DOMAIN db')
                   => db'[threads[1].key].vectorstore_data = <<>>
       ]_vars

(* C27 witness: the row of an identity was written after its put - memory  *)
(* holds the same transactions with their index, the row has them with an  *)
(* empty index field - and a second write that found the row is about to   *)
(* update it.                                                              *)
C27_Witness ==
    /\ <<"a">> \in DOMAIN db
    /\ <<"a">> \in DOMAIN memory_cache
    /\ memory_cache[<<"a">>].vectorstore # None
    /\ db[<<"a">>].vectorstore_data = <<>>
    /\ threads # <<>>
    /\ threads[1].pc = "commit"
    /\ threads[1].found
    /\ db[<<"a">>].transactions # heap[threads[1].transactions]

---------------------------------------------------------------------------
(* C28: every lookup sweeps the whole cache first: when it returns, no     *)
(* entry that was older than the time-to-live at the sweep is left, under  *)
(* the looked-up fingerprint or any other; the entries that were not are   *)
(* as they were (the looked-up one unless the second reading of the clock  *)
(* finds it expired, and then it is removed); and a lookup that returns an *)
(* entry leaves its timestamp alone, so that the entry expires at the time *)
(* of its store plus the time-to-live, however often it is looked up.      *)
C28_LookupSweeps ==
    [][\A q \in TtlQueryIds, late \in BOOLEAN :
         (resp'.op = "lookup" /\ resp'.query_id = q /\ CacheLookup(q, late)) =>
            /\ \A k \in DOMAIN query_cache :
                  Expired(query_cache[k], now) => k \notin DOMAIN query_cache'
            /\ \A k \in DOMAIN query_cache :
                  (~Expired(query_cache[k], now)
                   /\ (k = q => ~Expired(query_cache[k], now')))
                  => /\ k \in DOMAIN query_cache'
                     /\ EntryValue(query_cache'[k], heap')
                          = EntryValue(query_cache[k], heap)
            /\ DOMAIN query_cache' \subseteq DOMAIN query_cache
            /\ resp'.result # None =>
                  /\ resp'.result[1].timestamp = query_cache[q].timestamp
                  /\ query_cache'[q].timestamp = query_cache[q].timestamp
                  /\ \A t \in now'..(MaxTime + CACHE_TTL_MINUTES) :
                        get_cached_query(query_cache', q, t, t)[2] # None
                           <=> t <= query_cache[q].timestamp + CACHE_TTL_MINUTES
      ]_vars

(* C28 witness: a lookup returned an entry stored some time ago and swept  *)
(* the expired entry under the other fingerprint.                          *)
C28_Witness ==
    /\ resp.op = "lookup"
    /\ resp.result # None
    /\ resp.result[1].timestamp < now
    /\ resp.removed # {}
    /\ resp.query_id \notin resp.removed
    /\ DOMAIN query_cache = {resp.query_id}

---------------------------------------------------------------------------
(* C29: a delete is not undone by the background write of an earlier put:  *)
(* when the last operation on the store was the delete of a named identity *)
(* whose database delete succeeded, and every background write has come to *)
(* its end, the database has no row for the identity, exists(id) is false  *)
(* and get(id) returns the empty dataset.                                  *)
C29_DeleteNotUndone ==
    (/\ resp.op = "clear"
     /\ resp.db_ok
     /\ Truthy(resp.req.user_id)
     /\ threads = <<>>)
    => /\ storage_key(resp.req.user_id) \notin DOMAIN db
       /\ ~has_ingested_data(resp.req.user_id, TRUE)
       /\ ColdGet(resp.req.user_id, TRUE) = EmptyDataset

---------------------------------------------------------------------------
(* SpecWriters: puts of one named identity whose background writes run     *)
(* side by side, each at its own pace (query, then update or insert and    *)
(* commit), against a database that answers every call; the clock.         *)

WriterUser == Some(<<"a">>)

NextWriters ==
    \/ \E d \in Datasets(WriterUser) :
          IngestWithin(WriterUser, d, TRUE, MaxWriters)
    \/ \E i \in 1..MaxWriters : SaveQuery(i, TRUE)
    \/ \E i \in 1..MaxWriters : SaveCommit(i, TRUE)
    \/ Tick(CACHE_TTL_MINUTES + 1)

SpecWriters == InitStore /\ [][NextWriters]_vars

(* C30: the last put wins in the database: when the background write that  *)
(* finishes last commits, after the write of the latest put has committed  *)
(* what memory holds, the one row of the identity still holds the          *)
(* transactions of the latest put, the same as memory.                     *)
C30_LastPutWins ==
    [][(/\ Len(threads) = 1
        /\ threads' = <<>>
        /\ SaveCommit(1, TRUE)
        /\ (threads[1].found <=> threads[1].key \in DOMAIN db)
        /\ threads[1].key \in DOMAIN db
        /\ threads[1].key \in DOMAIN memory_cache
        /\ db[threads[1].key].transactions
             = heap[memory_cache[threads[1].key].transactions])
       => db'[threads[1].key].transactions
            = heap'[memory_cache'[threads[1].key].transactions]
      ]_vars

---------------------------------------------------------------------------
(* C31: exists and get agree: when exists(id) has just returned true and   *)
(* the next operation on the store is get(id), the get returns a list of   *)
(* transactions that is not empty, and exists(id) is still true after it.  *)
C31_ExistsGetAgree ==
    [][\A u \in StoreUserIds, db_ok \in BOOLEAN, build_ok \in BOOLEAN :
          (/\ resp.op = "exists"
           /\ resp.result
           /\ resp.req.user_id = u
           /\ resp'.op = "get"
           /\ Get(u, db_ok, build_ok))
          => /\ resp'.data.transactions # <<>>
             /\ has_ingested_data(u, TRUE)'
      ]_vars

---------------------------------------------------------------------------
(* C32: for one fingerprint, the matching count of a response served from  *)
(* the cache equals the matching count of the page-1 response that stored  *)
(* the entry: when a resolve that stored its result is followed by a       *)
(* resolve served from the cache under the same query id, the two report   *)
(* the same count.                                                         *)
C32_CachedCountAgrees ==
    [][(/\ resp.op = "resolve"
        /\ resp'.op = "resolve"
        /\ resp.status = 200
        /\ ~resp.from_cache
        /\ resp.calls # <<>>
        /\ resp.calls[Len(resp.calls)] = "store"
        /\ resp'.from_cache
        /\ resp'.query_id = resp.query_id)
       => resp'.matching_transactions_count = resp.matching_transactions_count
      ]_vars

---------------------------------------------------------------------------
(* C33: the string generate_query_id hashes is injective over (identity,   *)
(* question, filters): two calls whose identities differ or whose          *)
(* questions differ never hash the same string, underscores in identities  *)
(* and questions included, and the global identity never shares a string   *)
(* with a named one.                                                       *)
C33_KeyInjective ==
    (/\ fpOut # None
     /\ \/ IdentityOf(fpIn[1].user_id) # IdentityOf(fpIn[2].user_id)
        \/ fpIn[1].prompt # fpIn[2].prompt)
    => fpOut[1][1].key # fpOut[1][2].key

---------------------------------------------------------------------------
(* C34: a degraded load is sticky: a get that loads the row of an identity *)
(* while the index rebuild fails installs the dataset without an index in  *)
(* memory; from then on every get of the identity returns that entry, with *)
(* no index, without asking the database or the index builder, whether the *)
(* builder would succeed or not; and the entry stays as it is until a put  *)
(* or a delete of the identity (or the restart of the process).            *)
C34_DegradedLoadSticky ==
    [][\A u \in StoreUserIds :
          LET key == storage_key(u) IN
          /\ (resp'.op = "get" /\ resp'.req.user_id = u /\ Truthy(u)
              /\ key \notin DOMAIN memory_cache /\ key \in DOMAIN db
              /\ Get(u, TRUE, FALSE))
             => /\ key \in DOMAIN memory_cache'
                /\ memory_cache'[key].vectorstore = None
          /\ (Truthy(u) /\ key \in DOMAIN memory_cache
              /\ memory_cache[key].vectorstore = None)
             => /\ \A db_ok \in BOOLEAN, build_ok \in BOOLEAN :
                      (resp'.op = "get" /\ resp'.req.user_id = u
                       /\ Get(u, db_ok, build_ok))
                      => /\ resp'.calls = <<>>
                         /\ resp'.data.vectorstore = None
                         /\ resp'.data = DataValue(memory_cache[key], heap)
                /\ (\/ key \notin DOMAIN memory_cache'
                    \/ DataValue(memory_cache'[key], heap')
                         # DataValue(memory_cache[key], heap))
                   => \/ resp'.op = "restart"
                      \/ /\ resp'.op \in {"ingest", "clear"}
                         /\ resp'.req.user_id = u
      ]_vars

(* C34 witness: a get made while the index builder works returned, from    *)
(* memory, the transactions a degraded load had installed without index.   *)
C34_Witness ==
    /\ resp.op = "get"
    /\ resp.build_ok
    /\ resp.calls = <<>>
    /\ Truthy(resp.req.user_id)
    /\ resp.data.transactions # <<>>
    /\ resp.data.vectorstore = None
    /\ storage_key(resp.req.user_id) \in DOMAIN memory_cache

---------------------------------------------------------------------------
(* C35: the streamed full-data path reads the dataset once, when the       *)
(* generator starts: the list it holds is the one the store had at its     *)
(* first step, no put or delete that falls between two of its steps        *)
(* changes that list, and the count and the filter descriptions of its     *)
(* final metadata frame are those of the filter applied to that list, the  *)
(* one the generation call was given.                                      *)
C35_StreamReadsOnce ==
    /\ [][/\ (stream # None /\ stream' # None
              /\ stream[1].pc = "start" /\ stream'[1].pc = "body")
             => stream'[1].documents = heap'[legacy_store'.transactions]
          /\ (stream # None /\ stream' # None
              /\ stream[1].pc # "start" /\ stream'[1].pc # "start")
             => /\ stream'[1].documents = stream[1].documents
                /\ stream'[1].req = stream[1].req
       ]_vars
    /\ [](stream # None =>
            \A j \in DOMAIN stream[1].frames :
               (stream[1].branch = "SMART_FULL"
                /\ stream[1].frames[j].type = "metadata_final")
               => LET f == apply_filters(stream[1].documents,
                              extract_filters_from_query(stream[1].req.prompt),
                              stream[1].req.prompt)
                  IN  /\ stream[1].frames[j].matching_transactions_count
                           = Len(f.matching)
                      /\ stream[1].frames[j].filters_applied = f.descriptions)

(* C35 witness: a full-data stream sent its final metadata for the list it *)
(* read at its start after a put had replaced the stored dataset by one of *)
(* another size.                                                           *)
C35_Witness ==
    /\ stream # None
    /\ stream[1].branch = "SMART_FULL"
    /\ stream[1].pc = "final"
    /\ Chunks(stream[1].frames) > 0
    /\ stream[1].documents # heap[legacy_store.transactions]
    /\ heap[legacy_store.transactions] # <<>>
    /\ stream[1].frames[Len(stream[1].frames)].matching_transactions_count
         # Len(apply_filters(heap[legacy_store.transactions],
                            extract_filters_from_query(stream[1].req.prompt),
                            stream[1].req.prompt).matching)

---------------------------------------------------------------------------
(* SpecRefresh: the /prompt handler asked again and again for the same     *)
(* questions, first and later pages, while the global dataset is replaced  *)
(* and the clock moves within and past the time-to-live.                   *)

RefreshRequests ==
    {Request(None, p, page, 2, TRUE) : p \in Prompts, page \in 1..MaxPage}

NextRefresh ==
    \/ \E d \in Datasets(None) : Ingest(None, d, TRUE)
    \/ \E req \in RefreshRequests : ResolveNoted(req, FlowEnv)
    \/ Tick(2 * TickMinutes)

SpecRefresh == InitResolve /\ [][NextRefresh]_vars

(* C36: a page-1 resolve never serves from the cache: whether or not an    *)
(* unexpired entry is there under its query id, it classifies, filters and *)
(* generates against the dataset the store holds now; in the branches that *)
(* store, the entry under its query id is afterwards the one of this run - *)
(* stored now, with this run's answer and the subset of the current        *)
(* dataset - and a later page served from the cache is a window of the     *)
(* subset of the entry that is there.                                      *)
C36_PageOneRefreshes ==
    [][\A req \in RefreshRequests :
          (resp'.op = "resolve" /\ resp'.req = req /\ resp'.status = 200
           /\ ResolveNoted(req, FlowEnv)) =>
             LET documents == heap[legacy_store.transactions]
                 filters == extract_filters_from_query(req.prompt)
                 qid == RequestQueryId(req, filters)
             IN
             /\ req.page = 1 =>
                   /\ ~resp'.from_cache
                   /\ resp'.calls # <<>>
                   /\ resp'.calls[1] = "classify"
                   /\ resp'.mode = ResolveMode(req, documents)
                   /\ resp'.calls[Len(resp'.calls)] = "store" =>
                         /\ qid \in DOMAIN query_cache'
                         /\ query_cache'[qid].timestamp = now
                         /\ Some(query_cache'[qid].answer) = resp'.answer
                         /\ query_cache'[qid].mode = resp'.mode
                         /\ heap'[query_cache'[qid].filtered_docs]
                              = IF resp'.mode = "VECTOR_SEARCH" THEN <<>>
                                ELSE apply_filters(documents, filters,
                                                   req.prompt).matching
             /\ resp'.from_cache =>
                   /\ req.page > 1
                   /\ resp'.entry_found
                   /\ resp'.transactions
                        = Paginate(heap[query_cache[qid].filtered_docs],
                                   req.page, req.page_size,
                                   req.show_all).transactions
      ]_vars

(* C36 witness: a page-1 resolve found an unexpired entry under its query  *)
(* id, stored before the dataset was replaced, and answered from the       *)
(* current dataset, storing its own subset.                                *)
C36_Witness ==
    /\ resp.op = "resolve"
    /\ resp.status = 200
    /\ resp.req.page = 1
    /\ resp.entry_found
    /\ ~resp.from_cache
    /\ resp.mode = "SMART_FULL"
    /\ now > 0
    /\ resp.query_id[1] \in DOMAIN query_cache
    /\ query_cache[resp.query_id[1]].timestamp = now
    /\ heap[query_cache[resp.query_id[1]].filtered_docs]
         = heap[legacy_store.transactions]
    /\ legacy_store.last_updated = Some(now)

---------------------------------------------------------------------------
(* SpecExplicit: the /prompt handler called by the global identity and a   *)
(* named one, with and without a query id of the caller's choosing - here  *)
(* the id of the question "all" - for first and later pages.               *)

ExplicitId == generate_query_id(<<"all">>, extract_filters_from_query(<<"all">>), None)

ExplicitRequests ==
    {[Request(u, p, page, 2, TRUE) EXCEPT !.query_id = q] :
        u \in {None, ConfigUser}, p \in {<<"all">>, <<"total">>},
        page \in 1..MaxPage, q \in {None, Some(ExplicitId)}}

NextExplicit ==
    \/ \E u \in {None, ConfigUser} : \E d \in Datasets(u) : Ingest(u, d, TRUE)
    \/ \E req \in ExplicitRequests : Resolve(req, FlowEnv)
    \/ Tick(CACHE_TTL_MINUTES + 1)

SpecExplicit == InitResolve /\ [][NextExplicit]_vars

---------------------------------------------------------------------------
(* SpecGlobal: the context store used without an identity, with the empty  *)
(* identity and by a user whose id is the word "global", with the database *)
(* available: puts, background writes, gets, existence checks, deletes and *)
(* restarts.                                                               *)

GlobalUserIds == {None, Some(<<>>), Some(<<"global">>)}

(* What each caller ingests: the named user one transaction, the callers   *)
(* without identity two others.                                            *)
GlobalDocs(user_id) ==
    IF Truthy(user_id) THEN <<Txn(<<"global">>, 4, 500)>>
    ELSE <<Txn(<<"global">>, 1, 100), Txn(<<"global">>, 2, 500)>>

NextGlobal ==
    \/ \E u \in GlobalUserIds : Ingest(u, GlobalDocs(u), TRUE)
    \/ \E ok \in BOOLEAN : SaveQuery(1, ok)
    \/ \E ok \in BOOLEAN : SaveCommit(1, ok)
    \/ \E u \in GlobalUserIds, db_ok \in BOOLEAN : Clear(u, db_ok)
    \/ \E u \in GlobalUserIds, db_ok \in BOOLEAN : Get(u, db_ok, TRUE)
    \/ \E u \in GlobalUserIds, db_ok \in BOOLEAN : Exists(u, db_ok)
    \/ Restart

SpecGlobal == InitStore /\ [][NextGlobal]_vars

(* The background writes under way, each with its list by value.           *)
ThreadValues(t, h) == [j \in DOMAIN t |-> [t[j] EXCEPT !.transactions = h[@]]]

(* C38: the reserved global identity lives in memory only: a put, get,     *)
(* existence check or delete without an identity or with the empty one     *)
(* leaves the database and the per-identity map as they were - the row and *)
(* the entry of a user called "global" included - starts no background     *)
(* write, and asks the database nothing: the get makes no call and returns *)
(* the legacy store, and the existence check answers from the legacy store *)
(* whether or not the database can be read.                                *)
C38_GlobalMemoryOnly ==
    [][\A u \in {None, Some(<<>>)}, db_ok \in BOOLEAN :
          (resp'.op \in {"ingest", "get", "exists", "clear"}
           /\ resp'.req.user_id = u
           /\ \/ Ingest(u, GlobalDocs(u), TRUE)
              \/ Get(u, db_ok, TRUE)
              \/ Exists(u, db_ok)
              \/ Clear(u, db_ok))
          => /\ db' = db
             /\ ThreadValues(threads', heap') = ThreadValues(threads, heap)
             /\ MemValue(memory_cache', heap') = MemValue(memory_cache, heap)
             /\ resp'.op = "get" =>
                   /\ resp'.calls = <<>>
                   /\ resp'.data = DataValue(legacy_store, heap)
             /\ resp'.op = "exists" =>
                   resp'.result = (heap[legacy_store.transactions] # <<>>)
             /\ resp'.op = "ingest" =>
                   heap'[legacy_store'.transactions] = GlobalDocs(u)
             /\ resp'.op = "clear" =>
                   DataValue(legacy_store', heap') = EmptyDataset
      ]_vars

(* C38 witness: a put without identity has just returned while the user    *)
(* called "global" has its own entry in memory and its own row, and no     *)
(* background write is under way.                                          *)
C38_Witness ==
    /\ resp.op = "ingest"
    /\ resp.status = 200
    /\ ~Truthy(resp.req.user_id)
    /\ threads = <<>>
    /\ <<"global">> \in DOMAIN memory_cache
    /\ <<"global">> \in DOMAIN db
    /\ heap[legacy_store.transactions] = GlobalDocs(None)
    /\ db[<<"global">>].transactions = GlobalDocs(Some(<<"global">>))
    /\ heap[memory_cache[<<"global">>].transactions] = GlobalDocs(Some(<<"global">>))

---------------------------------------------------------------------------
(* SpecWrite: the puts of one named identity with the database available,  *)
(* each followed to the end of its background write before the next put;   *)
(* deletes, gets, restarts and the clock in between.  The thread, once     *)
(* started, keeps being scheduled.                                         *)

WriteLimit == 1

SaveStep == \E ok \in BOOLEAN : SaveQuery(1, ok) \/ SaveCommit(1, ok)

NextWrite ==
    \/ \E d \in Datasets(ConfigUser) : IngestWithin(ConfigUser, d, TRUE, WriteLimit)
    \/ SaveStep
    \/ \E db_ok \in BOOLEAN : Clear(ConfigUser, db_ok)
    \/ \E db_ok \in BOOLEAN : Get(ConfigUser, db_ok, TRUE)
    \/ Restart
    \/ Tick(CACHE_TTL_MINUTES + 1)

SpecWrite == InitStore /\ [][NextWrite]_vars /\ WF_vars(SaveStep)

(* C39: a put of a named identity with the database available starts one   *)
(* background write with the put's transactions; while the thread is       *)
(* scheduled the write comes to its end; and it ends in a commit, after    *)
(* which the row of the identity holds the put's transactions, or in a     *)
(* rollback, after which the database is as it was - the thread is gone    *)
(* either way, its session closed.  (A restart of the process ends the     *)
(* thread as well.)                                                        *)
C39_WriteTerminates ==
    /\ (threads # <<>>) ~> (threads = <<>>)
    /\ [][/\ \A d \in Datasets(ConfigUser) :
                (resp'.op = "ingest" /\ resp'.status = 200
                 /\ IngestWithin(ConfigUser, d, TRUE, WriteLimit))
                => /\ Len(threads') = Len(threads) + 1
                   /\ threads'[Len(threads')].pc = "query"
                   /\ threads'[Len(threads')].key = ConfigUser[1]
                   /\ heap'[threads'[Len(threads')].transactions] = d
          /\ (threads # <<>> /\ Len(threads') < Len(threads)) =>
                \/ Restart
                \/ /\ threads[1].pc = "query"
                   /\ SaveQuery(1, FALSE)
                   /\ db' = db
                \/ /\ threads[1].pc = "commit"
                   /\ \E ok \in BOOLEAN : SaveCommit(1, ok)
                   /\ \/ db' = db
                      \/ /\ threads[1].key \in DOMAIN db'
                         /\ db'[threads[1].key].transactions
                              = heap[threads[1].transactions]
                         /\ \A k \in DOMAIN db \ {threads[1].key} :
                               k \in DOMAIN db' /\ db'[k] = db[k]
          /\ \A ok \in BOOLEAN :
                (threads # <<>> /\ threads[1].pc = "commit" /\ SaveCommit(1, ok))
                => /\ threads' = <<>>
                   /\ (ok /\ (threads[1].found <=> threads[1].key \in DOMAIN db))
                      => /\ threads[1].key \in DOMAIN db'
                         /\ db'[threads[1].key].transactions
                              = heap[threads[1].transactions]
       ]_vars

(* C39 witness: the background write of the put that has just returned     *)
(* came to its end in a commit: no thread is left and the row holds the    *)
(* put's transactions, written after the put.                              *)
C39_Witness ==
    /\ resp.op = "ingest"
    /\ resp.status = 200
    /\ resp.req.user_id = ConfigUser
    /\ threads = <<>>
    /\ ConfigUser[1] \in DOMAIN db
    /\ db[ConfigUser[1]].transactions = resp.req.context_data
    /\ db[ConfigUser[1]].last_updated > 0
    /\ resp.timestamp = Some(0)

===========================================================================
